---- MODULE Spec2Model ----
(***************************************************************************)
(* A model of the coordination core of agent-army: the task scheduler      *)
(* (agents/task_manager.py), the message bus (core/message_bus.py) and the *)
(* agent runtime (core/base_agent.py).                                     *)
(*                                                                         *)
(* Spec     the task scheduler, its run loop, the workers that answer its  *)
(*          assignment envelopes                                           *)
(* QueueSpec the bus's priority queue: sends of every priority to one      *)
(*          registered agent, interleaved with the delivery loop's pops    *)
(* BusSpec  routing on the bus: agents register and unregister, envelopes  *)
(*          with @mentions are sent, directly or as broadcasts, and        *)
(*          delivered                                                      *)
(***************************************************************************)
EXTENDS Integers, Sequences, FiniteSets, TLC

\* ------------------------------------------------------------------ bounds
\* how many tasks create_task is called for (see PlansFor)
MaxTasks == 1
\* how many handler invocations of the scheduler raise (transient faults)
MaxFaults == 1
\* how many notices are sent a second time by a retried worker handler
MaxDup == 1
\* how many envelopes are sent to the priority queue
MaxSends == 4
\* how many envelopes are routed while agents register and unregister
MaxRouted == 1
\* the last reading of the clock
MaxClock == 1

\* ------------------------------------------------------- program constants
\* stop_after_attempt(3)
MaxAttempts == 3
\* MessageBus(history_size=1000)
HistorySize == 1000

\* TaskStatus values
PENDING == "pending"
PLANNING == "planning"
IN_PROGRESS == "in_progress"
COMPLETED == "completed"
FAILED == "failed"
CANCELLED == "cancelled"

\* the message type tags the scheduler and the workers exchange
TASK_ASSIGNED == "task_assigned"
TASK_SUBTASK_COMPLETE == "task_subtask_complete"
TASK_FAILED == "task_failed"
TASK_CREATED == "task_created"

\* worker types whose TASK_ASSIGNED handler runs the work inside try/except and
\* reports TASK_FAILED on an exception
ReportingWorkers == {"research_manager", "email_writer"}
\* worker types whose TASK_ASSIGNED handler only ever reports completion
CompletingWorkers == {"deal_tracker", "email_sender"}
WorkerTypes == ReportingWorkers \cup CompletingWorkers

\* One planned entry, as the planning capability returns it.
Entry(agent, order, deps) ==
    [assigned_agent |-> agent, sequence_order |-> order, depends_on |-> deps]

\* The plans the planning capability is taken to return: the empty plan, a
\* single subtask, the chain A <- B, two roots with a dependent of one of them,
\* a join on {0,1}, a subtask for a worker type nobody registered, and a
\* dependency index that no subtask carries.
Plans ==
    { << >>,
      << Entry("research_manager", 0, << >>) >>,
      << Entry("research_manager", 0, << >>),
         Entry("deal_tracker", 1, <<0>>) >>,
      << Entry("research_manager", 0, << >>),
         Entry("email_writer", 1, << >>),
         Entry("deal_tracker", 2, <<1>>) >>,
      << Entry("research_manager", 0, << >>),
         Entry("deal_tracker", 1, << >>),
         Entry("email_sender", 2, <<0, 1>>) >>,
      << Entry("nobody", 0, << >>),
         Entry("deal_tracker", 1, <<0>>) >>,
      << Entry("deal_tracker", 0, << >>),
         Entry("deal_tracker", 1, <<2>>) >> }

\* The plans returned for a task: the first task created gets any of Plans,
\* a task created while it is in flight gets the empty plan or one subtask.
SmallPlans == { p \in Plans : Len(p) <= 1 }
PlansFor(task_id) == IF task_id = 1 THEN Plans ELSE SmallPlans

VARIABLES
    tasks,            \* db: the tasks table, task id = index
    subtasks,         \* db: the subtasks table, subtask id = index
    pending_tasks,    \* TaskManagerAgent._pending_tasks
    active_tasks,     \* keys of TaskManagerAgent._active_tasks
    tm_queue,         \* the scheduler's inbox (BaseAgent._message_queue)
    tm_pc,            \* where the scheduler's run loop stands
    tm_attempt,       \* failed attempts of the handler on the head envelope
    tm_task,          \* the task _plan_and_execute_task is planning (0: none)
    assigned,         \* TASK_ASSIGNED envelopes sent, in send order
    worker_inbox,     \* subtask ids whose assignment awaits its worker
    notices,          \* notices the workers have sent so far
    failure_handled,  \* tasks for which a failure notice has been handled
    faults,           \* handler invocations that raised so far
    dups,             \* notices sent twice so far
    bus_agents,       \* keys of MessageBus._agents
    bus_names,        \* MessageBus._agent_names: alias -> id
    bus_queue,        \* MessageBus._priority_queue: the heap list
    bus_history,      \* MessageBus._history
    bus_subscribers,  \* MessageBus._subscribers: type tag -> handler list
    msg_count,        \* envelopes built so far (their ids are unique)
    clock,            \* the reading of datetime.now()
    inbox,            \* BaseAgent._message_queue of every agent object (ids)
    agent_running,    \* BaseAgent._running of every agent object
    agent_status,     \* BaseAgent._status
    agent_task,       \* BaseAgent._task: an index of run_loops, 0 for None
    agent_metrics,    \* BaseAgent._metrics: tasks_completed, tasks_failed, errors
    http_client,      \* the agent object holds an httpx client
    run_loops,        \* every asyncio task created for _run_loop
    invocations,      \* the envelopes process_message was called on, in order
    registry_agents,  \* keys of AgentRegistry._agents, in insertion order
    registry_names,   \* AgentRegistry._agent_names: lower-cased name -> id
    registry_types,   \* AgentRegistry._agent_types: type -> list of ids
    restart_enabled,  \* AgentRegistry._restart_enabled
    stop_calls,       \* the calls of stop(), by caller and agent
    health_pc,        \* where the health loop stands
    agents_to_restart,\* the list _check_all_agents still has to restart
    health,           \* what health_check gave in the last sweep
    supervisor_log,   \* what the health loop has done to the agents
    shutdown_pc,      \* where shutdown_all stands
    shutdown_tasks,   \* the agents shutdown_all gathers a stop() for
    used,             \* how often the environment has acted
    envelope,         \* the Message to_dict is called on (none: << >>)
    data,             \* the dict to_dict returned (none: << >>)
    rebuilt,          \* the Message from_dict built from it (none: << >>)
    history_size,     \* MessageBus(history_size): maxlen of the history deque
    websocket_handlers, \* MessageBus._websocket_handlers
    handler_calls,    \* the calls of subscribers and observers, in order
    raising_agents,   \* the agent objects whose receive_message raises
    raising_handlers, \* the subscribers and observers that raise
    merge_rows,       \* db: the subtask rows of one task with their data
    merge_sent,       \* payloads of the TASK_ASSIGNED envelopes for them
    llm_available,    \* LLMService.is_available
    plan_title,       \* Task.title of the task being planned
    plan_description, \* Task.description of the task being planned
    plans_made        \* the plans planning has produced for it, in call order

schedVars == << tasks, subtasks, pending_tasks, active_tasks, tm_queue, tm_pc,
                tm_attempt, tm_task, assigned, worker_inbox, notices, failure_handled,
                faults, dups >>

busVars == << bus_agents, bus_names, bus_queue, bus_history, bus_subscribers,
              msg_count, clock, inbox >>

agentVars == << agent_running, agent_status, agent_task, agent_metrics,
                http_client, run_loops, invocations, registry_agents,
                registry_names, registry_types, restart_enabled, stop_calls,
                health_pc, agents_to_restart, health, supervisor_log,
                shutdown_pc, shutdown_tasks, used >>

codecVars == << envelope, data, rebuilt >>

confVars == << history_size >>

notifyVars == << websocket_handlers, handler_calls, raising_agents,
                 raising_handlers >>

planVars == << merge_rows, merge_sent, llm_available, plan_title,
               plan_description, plans_made >>

vars == << schedVars, busVars, agentVars, codecVars, confVars, notifyVars,
           planVars >>

\* ------------------------------------------------------------- persistence

Range(s) == { s[i] : i \in 1..Len(s) }

\* Database.create_task: a row in PENDING
create_task_row == [status |-> PENDING, result_summary |-> "", planned |-> FALSE]

\* Database.update_task(task_id, status=..., result_summary=...): no row, no change
update_task(tbl, task_id, status, summary) ==
    IF task_id \in 1..Len(tbl)
    THEN [tbl EXCEPT ![task_id].status = status, ![task_id].result_summary = summary]
    ELSE tbl

\* Database.update_task(task_id, status=...)
update_task_status(tbl, task_id, status) ==
    IF task_id \in 1..Len(tbl)
    THEN [tbl EXCEPT ![task_id].status = status]
    ELSE tbl

\* Database.create_subtask: a row in PENDING (the column default)
create_subtask(task_id, st) ==
    [task_id |-> task_id, assigned_agent |-> st.assigned_agent,
     sequence_order |-> st.sequence_order, depends_on |-> st.depends_on,
     status |-> PENDING]

\* Database.update_subtask(subtask_id, status=...): no row, no change
update_subtask(tbl, subtask_id, status) ==
    IF subtask_id \in 1..Len(tbl)
    THEN [tbl EXCEPT ![subtask_id].status = status]
    ELSE tbl

RECURSIVE SortedInsert(_, _, _)
SortedInsert(tbl, ids, id) ==
    IF ids = << >> THEN << id >>
    ELSE IF tbl[Head(ids)].sequence_order <= tbl[id].sequence_order
         THEN << Head(ids) >> \o SortedInsert(tbl, Tail(ids), id)
         ELSE << id >> \o ids

RECURSIVE SubtasksUpTo(_, _, _)
SubtasksUpTo(tbl, task_id, n) ==
    IF n = 0 THEN << >>
    ELSE LET rest == SubtasksUpTo(tbl, task_id, n - 1)
         IN  IF tbl[n].task_id = task_id THEN SortedInsert(tbl, rest, n) ELSE rest

\* Database.get_subtasks: the ids of the task's subtasks, ORDER BY sequence_order
get_subtasks(tbl, task_id) == SubtasksUpTo(tbl, task_id, Len(tbl))

\* sum(1 for st in subtasks if st.status == status)
CountStatus(tbl, ids, status) ==
    Cardinality({ i \in 1..Len(ids) : tbl[ids[i]].status = status })

\* ---------------------------------------------------------------- dispatch

\* completed_orders: the sequence indices of the COMPLETED subtasks
completed_orders(tbl, ids) ==
    { tbl[ids[i]].sequence_order : i \in { j \in 1..Len(ids) : tbl[ids[j]].status = COMPLETED } }

\* mutant: any() for all() over the dependency list
IsReadyAny(st, done) ==
    /\ st.status = PENDING
    /\ \/ st.depends_on = << >>
       \/ \E i \in 1..Len(st.depends_on) : st.depends_on[i] \in done

\* mutant: the PENDING filter dropped
IsReadyAnyStatus(st, done) ==
    \A i \in 1..Len(st.depends_on) : st.depends_on[i] \in done

\* mutant: the PENDING filter also lets COMPLETED rows through
IsReadyAgain(st, done) ==
    /\ st.status \in {PENDING, COMPLETED}
    /\ \A i \in 1..Len(st.depends_on) : st.depends_on[i] \in done

\* mutant: the dependency test dropped
IsReadyIgnoreDeps(st, done) == st.status = PENDING

\* the test of the dispatch loop: st.status == PENDING and
\* all(d in completed_orders for d in deps)
IsReady(st, done) ==
    /\ st.status = PENDING
    /\ \A i \in 1..Len(st.depends_on) : st.depends_on[i] \in done

Envelope(tbl, id) == [task_id |-> tbl[id].task_id, subtask_id |-> id]

\* The loop of _dispatch_ready_subtasks over the rows read at its start. Each
\* ready row is marked IN_PROGRESS and then its envelope is sent; sendRaises
\* makes the first send raise, which leaves the loop with that row marked.
RECURSIVE DispatchLoop(_, _, _, _, _)
DispatchLoop(ids, tbl, done, out, sendRaises) ==
    IF ids = << >> THEN [subtasks |-> tbl, sent |-> out, raised |-> FALSE]
    ELSE IF IsReady(tbl[Head(ids)], done)
         THEN LET marked == update_subtask(tbl, Head(ids), IN_PROGRESS)
              IN  IF sendRaises
                  THEN [subtasks |-> marked, sent |-> out, raised |-> TRUE]
                  ELSE DispatchLoop(Tail(ids), marked, done,
                                    Append(out, Envelope(tbl, Head(ids))), FALSE)
         ELSE DispatchLoop(Tail(ids), tbl, done, out, sendRaises)

\* TaskManagerAgent._dispatch_ready_subtasks
dispatch_ready_subtasks(tbl, task_id, sendRaises) ==
    LET ids == get_subtasks(tbl, task_id)
    IN  DispatchLoop(ids, tbl, completed_orders(tbl, ids), << >>, sendRaises)

\* the envelopes of `out` that the bus can deliver: the recipient type names a
\* registered worker
Deliverable(tbl, out) ==
    { out[i].subtask_id : i \in { j \in 1..Len(out) :
          tbl[out[j].subtask_id].assigned_agent \in WorkerTypes } }

\* ------------------------------------------------- the scheduler's handlers

Outcome(t, s, a, out, raised) ==
    [tasks |-> t, subtasks |-> s, active |-> a, sent |-> out, raised |-> raised]

\* TaskManagerAgent._complete_task
complete_task(tbl, task_id) == update_task(tbl, task_id, COMPLETED, "done")

\* mutant: the completion test passes as soon as one subtask is COMPLETED
AllCompletedSome(completed, total) == completed >= 1

\* `if completed == total` of _handle_subtask_complete
AllCompleted(completed, total) == completed = total

\* TaskManagerAgent._handle_subtask_complete. fault "db": the database call
\* after update_subtask raises; fault "send": the first assignment send raises.
handle_subtask_complete(task_id, subtask_id, fault) ==
    LET tbl == update_subtask(subtasks, subtask_id, COMPLETED)
        ids == get_subtasks(tbl, task_id)
        total == Len(ids)
        completed == CountStatus(tbl, ids, COMPLETED)
        d == dispatch_ready_subtasks(tbl, task_id, fault = "send")
    IN  IF fault = "db" THEN Outcome(tasks, tbl, active_tasks, << >>, TRUE)
        ELSE IF AllCompleted(completed, total)
             THEN Outcome(complete_task(tasks, task_id), tbl,
                          active_tasks \ {task_id}, << >>, FALSE)
             ELSE Outcome(tasks, d.subtasks, active_tasks, d.sent, d.raised)

\* mutant: the failure handler drops the tracking entry of every task
handle_task_failure_clear_all(task_id, fault) ==
    IF fault = "db" THEN Outcome(tasks, subtasks, active_tasks, << >>, TRUE)
    ELSE Outcome(update_task(tasks, task_id, FAILED, "Fehler"), subtasks,
                 {}, << >>, FALSE)

\* TaskManagerAgent._handle_task_failure. fault "db": update_task raises.
handle_task_failure(task_id, fault) ==
    IF fault = "db" THEN Outcome(tasks, subtasks, active_tasks, << >>, TRUE)
    ELSE Outcome(update_task(tasks, task_id, FAILED, "Fehler"), subtasks,
                 active_tasks \ {task_id}, << >>, FALSE)

\* TaskManagerAgent.process_message
process_message(m, fault) ==
    IF m.type = TASK_SUBTASK_COMPLETE
    THEN handle_subtask_complete(m.task_id, m.subtask_id, fault)
    ELSE handle_task_failure(m.task_id, fault)

\* TaskManagerAgent._check_task_progress: does the sweep fail this task
SweepFails(stbl, task_id) ==
    LET ids == get_subtasks(stbl, task_id)
        completed == CountStatus(stbl, ids, COMPLETED)
        failed == CountStatus(stbl, ids, FAILED)
    IN  failed > 0 /\ completed + failed = Len(ids)

\* the second half of TaskManagerAgent.run: the sweep over the active tasks
SweepTasks(ttbl, stbl, active) ==
    [t \in 1..Len(ttbl) |->
        IF t \in active /\ SweepFails(stbl, t)
        THEN [ttbl[t] EXCEPT !.status = FAILED, !.result_summary = "Fehler"]
        ELSE ttbl[t]]

SweepActive(stbl, active) == { t \in active : ~SweepFails(stbl, t) }

RECURSIVE CreateSubtasks(_, _, _)
\* the loop of _plan_and_execute_task that persists the planned entries
CreateSubtasks(stbl, task_id, plan) ==
    IF plan = << >> THEN stbl
    ELSE CreateSubtasks(Append(stbl, create_subtask(task_id, Head(plan))),
                        task_id, Tail(plan))

\* ------------------------------------------------------------------ actions

SchedInit ==
    /\ tasks = << >>
    /\ subtasks = << >>
    /\ pending_tasks = << >>
    /\ active_tasks = {}
    /\ tm_queue = << >>
    /\ tm_pc = "recv"
    /\ tm_attempt = 0
    /\ tm_task = 0
    /\ assigned = << >>
    /\ worker_inbox = {}
    /\ notices = {}
    /\ failure_handled = {}
    /\ faults = 0
    /\ dups = 0

\* TaskManagerAgent.create_task, called by the API
CreateTask ==
    /\ Len(tasks) < MaxTasks
    /\ tasks' = Append(tasks, create_task_row)
    /\ pending_tasks' = Append(pending_tasks, Len(tasks) + 1)
    /\ UNCHANGED << subtasks, active_tasks, tm_queue, tm_pc, tm_attempt, tm_task,
                    assigned, worker_inbox, notices, failure_handled, faults, dups >>
    /\ UNCHANGED << busVars, agentVars, codecVars, confVars, notifyVars, planVars >>

\* TaskManagerAgent.run, entered with the tables as the handler left them. With
\* a pending task: its id is popped and _plan_and_execute_task moves the task
\* to PLANNING and awaits the plan. Without one: the sweep over the active
\* tasks, and the loop is back at its wait for an envelope.
run(ttbl, stbl, active) ==
    IF pending_tasks # << >>
    THEN /\ tm_task' = Head(pending_tasks)
         /\ pending_tasks' = Tail(pending_tasks)
         /\ tasks' = update_task_status(ttbl, Head(pending_tasks), PLANNING)
         /\ active_tasks' = active
         /\ tm_pc' = "planning"
    ELSE /\ tasks' = SweepTasks(ttbl, stbl, active)
         /\ active_tasks' = SweepActive(stbl, active)
         /\ tm_pc' = "recv"
         /\ UNCHANGED << pending_tasks, tm_task >>

\* BaseAgent._run_loop: the wait for an inbox envelope times out, then run()
RecvTimeout ==
    /\ tm_pc = "recv"
    /\ tm_queue = << >>
    /\ run(tasks, subtasks, active_tasks)
    /\ UNCHANGED << subtasks, tm_queue, tm_attempt, assigned, worker_inbox,
                    notices, failure_handled, faults, dups >>
    /\ UNCHANGED << busVars, agentVars, codecVars, confVars, notifyVars, planVars >>

\* BaseAgent._run_loop and _process_message_with_retry: one attempt of the
\* handler on the envelope taken from the inbox, then run(). An attempt that
\* raises is retried (the envelope stays the current one), up to MaxAttempts;
\* the last failure goes to the loop, which skips run().
HandleNotice(fault) ==
    /\ tm_pc = "recv"
    /\ tm_queue # << >>
    /\ LET m == Head(tm_queue)
           r == process_message(m, fault)
       IN  /\ fault # "none" => r.raised /\ faults < MaxFaults
           /\ subtasks' = r.subtasks
           /\ assigned' = assigned \o r.sent
           /\ worker_inbox' = worker_inbox \cup Deliverable(r.subtasks, r.sent)
           /\ failure_handled' =
                 IF m.type = TASK_FAILED /\ ~r.raised
                 THEN failure_handled \cup {m.task_id} ELSE failure_handled
           /\ faults' = IF r.raised THEN faults + 1 ELSE faults
           /\ IF ~r.raised
              THEN /\ tm_queue' = Tail(tm_queue)
                   /\ tm_attempt' = 0
                   /\ run(r.tasks, r.subtasks, r.active)
              ELSE /\ tasks' = r.tasks
                   /\ active_tasks' = r.active
                   /\ tm_pc' = "recv"
                   /\ UNCHANGED << pending_tasks, tm_task >>
                   /\ IF tm_attempt + 1 < MaxAttempts
                      THEN /\ tm_queue' = tm_queue
                           /\ tm_attempt' = tm_attempt + 1
                      ELSE /\ tm_queue' = Tail(tm_queue)
                           /\ tm_attempt' = 0
    /\ UNCHANGED << notices, dups >>
    /\ UNCHANGED << busVars, agentVars, codecVars, confVars, notifyVars, planVars >>

\* str(e) of the exception a planning fault raises: the fault names its text
ErrorText(fault) == fault

\* the summary the except branch of _plan_and_execute_task writes
PlanningFailedBare(error) == "Planning failed: "

PlanningFailed(error) == "Planning failed: " \o error

PlanFaults == { "llm", "rows", "mark", "send" }

\* _plan_and_execute_task from the plan on, then the sweep of run(). fault
\* "llm": the planning capability raises; "rows": create_subtask raises at the
\* last planned entry; "mark": update_subtask raises at the first ready subtask
\* of the first dispatch; "send": its assignment send raises. Each ends in the
\* except branch: FAILED with the error text in the summary.
PlanFinish(plan, fault) ==
    /\ tm_pc = "planning"
    /\ plan \in PlansFor(tm_task)
    /\ LET rows == IF fault = "rows" THEN SubSeq(plan, 1, Len(plan) - 1)
                   ELSE plan
           created == CreateSubtasks(subtasks, tm_task, rows)
           early == fault \in { "llm", "rows" }
           d == dispatch_ready_subtasks(created, tm_task,
                                        fault \in { "mark", "send" })
           stbl == IF fault = "llm" THEN subtasks
                   ELSE IF fault \in { "rows", "mark" } THEN created
                   ELSE d.subtasks
           raised == early \/ d.raised
           active == IF early THEN active_tasks
                     ELSE active_tasks \cup {tm_task}
           planned == IF early THEN tasks
                      ELSE [update_task_status(tasks, tm_task, IN_PROGRESS)
                               EXCEPT ![tm_task].planned = TRUE]
           ttbl == IF raised
                   THEN update_task(planned, tm_task, FAILED,
                                    PlanningFailed(ErrorText(fault)))
                   ELSE planned
           out == IF early \/ fault = "mark" THEN << >> ELSE d.sent
       IN  /\ fault \in { "mark", "send" } => d.raised /\ faults < MaxFaults
           /\ fault = "rows" => plan # << >>
           /\ subtasks' = stbl
           /\ assigned' = assigned \o out
           /\ worker_inbox' = worker_inbox \cup Deliverable(stbl, out)
           /\ tasks' = SweepTasks(ttbl, stbl, active)
           /\ active_tasks' = SweepActive(stbl, active)
           /\ faults' = IF fault \in { "mark", "send" } THEN faults + 1
                        ELSE faults
    /\ tm_task' = 0
    /\ tm_pc' = "recv"
    /\ UNCHANGED << pending_tasks, tm_queue, tm_attempt, notices,
                    failure_handled, dups >>
    /\ UNCHANGED << busVars, agentVars, codecVars, confVars, notifyVars, planVars >>

Notice(type, sid) ==
    [type |-> type, task_id |-> subtasks[sid].task_id, subtask_id |-> sid]

\* a worker's process_message on TASK_ASSIGNED: the work succeeds and
\* TASK_SUBTASK_COMPLETE goes to "task_manager"
WorkerComplete(sid) ==
    /\ sid \in worker_inbox
    /\ worker_inbox' = worker_inbox \ {sid}
    /\ tm_queue' = Append(tm_queue, Notice(TASK_SUBTASK_COMPLETE, sid))
    /\ notices' = notices \cup {Notice(TASK_SUBTASK_COMPLETE, sid)}
    /\ UNCHANGED << tasks, subtasks, pending_tasks, active_tasks, tm_pc,
                    tm_attempt, tm_task, assigned, failure_handled, faults, dups >>
    /\ UNCHANGED << busVars, agentVars, codecVars, confVars, notifyVars, planVars >>

\* _execute_subtask of a worker with try/except: the work raises and
\* TASK_FAILED goes to "task_manager"
WorkerFail(sid) ==
    /\ sid \in worker_inbox
    /\ subtasks[sid].assigned_agent \in ReportingWorkers
    /\ worker_inbox' = worker_inbox \ {sid}
    /\ tm_queue' = Append(tm_queue, Notice(TASK_FAILED, sid))
    /\ notices' = notices \cup {Notice(TASK_FAILED, sid)}
    /\ UNCHANGED << tasks, subtasks, pending_tasks, active_tasks, tm_pc,
                    tm_attempt, tm_task, assigned, failure_handled, faults, dups >>
    /\ UNCHANGED << busVars, agentVars, codecVars, confVars, notifyVars, planVars >>

\* a worker's handler is retried after its send went out: the same notice is
\* sent a second time
DuplicateNotice(n) ==
    /\ n \in notices
    /\ dups < MaxDup
    /\ dups' = dups + 1
    /\ tm_queue' = Append(tm_queue, n)
    /\ UNCHANGED << tasks, subtasks, pending_tasks, active_tasks, tm_pc,
                    tm_attempt, tm_task, assigned, worker_inbox, notices,
                    failure_handled, faults >>
    /\ UNCHANGED << busVars, agentVars, codecVars, confVars, notifyVars, planVars >>

SchedNext ==
    \/ CreateTask
    \/ RecvTimeout
    \/ \E fault \in {"none", "db", "send"} : HandleNotice(fault)
    \/ \E plan \in Plans, fault \in {"none"} \cup PlanFaults :
          PlanFinish(plan, fault)
    \/ \E sid \in 1..Len(subtasks) : WorkerComplete(sid)
    \/ \E sid \in 1..Len(subtasks) : WorkerFail(sid)
    \/ \E n \in notices : DuplicateNotice(n)

\* ============================================================ message bus
\* Strings that the bus lower-cases, scans or compares are sequences of
\* characters.
UpperCase == << "A", "B", "C", "D", "E", "F", "G", "H", "I", "J", "K", "L", "M", "N", "O", "P", "Q", "R", "S", "T", "U", "V", "W", "X", "Y", "Z" >>
LowerCase == << "a", "b", "c", "d", "e", "f", "g", "h", "i", "j", "k", "l", "m", "n", "o", "p", "q", "r", "s", "t", "u", "v", "w", "x", "y", "z" >>
Digits == { "0", "1", "2", "3", "4", "5", "6", "7", "8", "9" }

\* the lower-case letter of every upper-case letter
LowerOf ==
    [c \in Range(UpperCase) |->
        LowerCase[CHOOSE i \in 1..Len(UpperCase) : UpperCase[i] = c]]

\* str.lower, one character
lower_char(c) == IF c \in DOMAIN LowerOf THEN LowerOf[c] ELSE c

\* str.lower
lower(s) == [i \in 1..Len(s) |-> lower_char(s[i])]

\* the class \w of MENTION_PATTERN
WordChars == Range(UpperCase) \cup Range(LowerCase) \cup Digits \cup {"_"}
IsWordChar(c) == c \in WordChars

\* The agent objects that exist: two instances of QualityControlAgent and one
\* of EmailWriterAgent. agent_id is "<agent_type>_<uuid>".
QC1 == << "q", "u", "a", "l", "i", "t", "y", "_", "c", "o", "n", "t", "r", "o", "l", "_", "1" >>
QC2 == << "q", "u", "a", "l", "i", "t", "y", "_", "c", "o", "n", "t", "r", "o", "l", "_", "2" >>
EW1 == << "e", "m", "a", "i", "l", "_", "w", "r", "i", "t", "e", "r", "_", "1" >>
AgentPool == { QC1, QC2, EW1 }
\* the scheduler, an instance of TaskManagerAgent
TM1 == << "t", "a", "s", "k", "_", "m", "a", "n", "a", "g", "e", "r", "_", "1" >>

\* BaseAgent.name
agent_name(id) ==
    IF id = EW1 THEN << "E", "m", "a", "i", "l", "W", "r", "i", "t", "e", "r" >>
    ELSE IF id = TM1 THEN << "T", "a", "s", "k", "M", "a", "n", "a", "g", "e", "r" >>
    ELSE << "Q", "u", "a", "l", "i", "t", "y", "C", "o", "n", "t", "r", "o", "l" >>

\* BaseAgent.agent_type
agent_type(id) ==
    IF id = EW1 THEN << "e", "m", "a", "i", "l", "_", "w", "r", "i", "t", "e", "r" >>
    ELSE IF id = TM1 THEN << "t", "a", "s", "k", "_", "m", "a", "n", "a", "g", "e", "r" >>
    ELSE << "q", "u", "a", "l", "i", "t", "y", "_", "c", "o", "n", "t", "r", "o", "l" >>

\* a sender that is no agent, as the API and the tests use it
SYSTEM == << "s", "y", "s", "t", "e", "m" >>
\* the broadcast marker of recipient_id
BROADCAST == << "b", "r", "o", "a", "d", "c", "a", "s", "t" >>

\* payload["text"] values: the agent name twice in two spellings, and the
\* names of both agent classes
TextTwice == << "@", "q", "u", "a", "l", "i", "t", "y", "c", "o", "n", "t", "r", "o", "l", " ", "@", "Q", "u", "a", "l", "i", "t", "y", "C", "o", "n", "t", "r", "o", "l" >>
TextBoth == << "@", "E", "m", "a", "i", "l", "W", "r", "i", "t", "e", "r", ",", " ", "@", "Q", "u", "a", "l", "i", "t", "y", "C", "o", "n", "t", "r", "o", "l", "?" >>
Texts == { TextTwice, TextBoth }

\* Priority
Priorities == { "urgent", "high", "normal", "low" }

\* Priority.value_int
value_int(p) ==
    CASE p = "urgent" -> 0
      [] p = "high" -> 1
      [] p = "normal" -> 2
      [] p = "low" -> 3

\* PrioritizedMessage(priority, timestamp, message)
PrioritizedMessage(priority, timestamp, message) ==
    [priority |-> priority, timestamp |-> timestamp, message |-> message]

\* an ordering that forgets the priority field
lt_timestamp_only(x, y) == x.timestamp < y.timestamp

\* PrioritizedMessage.__lt__ as dataclass(order=True) generates it: the tuples
\* (priority, timestamp) are compared, the message takes no part
lt(x, y) ==
    \/ x.priority < y.priority
    \/ x.priority = y.priority /\ x.timestamp < y.timestamp

\* heapq._siftdown(heap, startpos, pos), positions counted from 0; newitem is
\* the item taken from heap[pos] on entry
RECURSIVE siftdown(_, _, _, _)
siftdown(heap, startpos, pos, newitem) ==
    IF pos > startpos
    THEN LET parentpos == (pos - 1) \div 2
             parent == heap[parentpos + 1]
         IN  IF lt(newitem, parent)
             THEN siftdown([heap EXCEPT ![pos + 1] = parent], startpos, parentpos,
                           newitem)
             ELSE [heap EXCEPT ![pos + 1] = newitem]
    ELSE [heap EXCEPT ![pos + 1] = newitem]

\* heapq.heappush(heap, item)
heappush(heap, item) == siftdown(Append(heap, item), 0, Len(heap), item)

\* the loop of heapq._siftup: the smaller child moves up until a leaf is hit
RECURSIVE siftup_loop(_, _)
siftup_loop(heap, pos) ==
    LET endpos == Len(heap)
        childpos == 2 * pos + 1
        rightpos == childpos + 1
        chosen == IF rightpos < endpos /\ ~ lt(heap[childpos + 1], heap[rightpos + 1])
                  THEN rightpos
                  ELSE childpos
    IN  IF childpos < endpos
        THEN siftup_loop([heap EXCEPT ![pos + 1] = heap[chosen + 1]], chosen)
        ELSE [heap |-> heap, pos |-> pos]

\* heapq._siftup(heap, 0)
siftup(heap) ==
    LET newitem == heap[1]
        leaf == siftup_loop(heap, 0)
    IN  siftdown(leaf.heap, 0, leaf.pos, newitem)

\* mutant: the smallest item is returned and stays in the heap
heappop_peek(heap) == [item |-> heap[1], heap |-> heap]

\* heapq.heappop(heap): the item returned and the heap left
heappop(heap) ==
    LET lastelt == heap[Len(heap)]
        rest == SubSeq(heap, 1, Len(heap) - 1)
    IN  IF rest # << >>
        THEN [item |-> rest[1], heap |-> siftup([rest EXCEPT ![1] = lastelt])]
        ELSE [item |-> lastelt, heap |-> << >>]

\* dict[k] = v
Put(d, k, v) == [x \in (DOMAIN d) \cup {k} |-> IF x = k THEN v ELSE d[x]]

\* MessageBus.register_agent: _agents[agent_id] = agent
register_agents(agents, id) == agents \cup {id}

\* MessageBus.register_agent: both aliases are overwritten
register_names(names, id) ==
    Put(Put(names, lower(agent_name(id)), id), lower(agent_type(id)), id)

\* del self._agents[agent_id]
unregister_agents(agents, id) == agents \ {id}

\* list(self._agents.values()): the dict's insertion order decides nothing but
\* the order in which one envelope's recipients are served, so the agents
\* are listed in one fixed order
AgentOrder == << QC1, QC2, EW1, TM1 >>
values(agents) == SelectSeq(AgentOrder, LAMBDA a : a \in agents)

\* mutant: the alias map is left as it is
unregister_names_keep(names, id) == names

\* {k: v for k, v in self._agent_names.items() if v != agent_id}
unregister_names(names, id) ==
    [k \in { x \in DOMAIN names : names[x] # id } |-> names[k]]

\* MessageBus.get_agent: the agent found, as a list of at most one
get_agent(agents, names, identifier) ==
    IF identifier \in agents THEN << identifier >>
    ELSE IF lower(identifier) \in DOMAIN names
              /\ names[lower(identifier)] \in agents
         THEN << names[lower(identifier)] >>
         ELSE << >>

\* where the run of \w characters that starts at position i ends
RECURSIVE WordEnd(_, _)
WordEnd(text, i) ==
    IF i <= Len(text) /\ IsWordChar(text[i]) THEN WordEnd(text, i + 1) ELSE i

\* MENTION_PATTERN.finditer(text): group(1) of every match of @(\w+), from
\* position i on
RECURSIVE finditer(_, _)
finditer(text, i) ==
    IF i > Len(text) THEN << >>
    ELSE IF text[i] = "@" /\ WordEnd(text, i + 1) > i + 1
         THEN << SubSeq(text, i + 1, WordEnd(text, i + 1) - 1) >>
              \o finditer(text, WordEnd(text, i + 1))
         ELSE finditer(text, i + 1)

\* the loop of _parse_mentions over the matches
RECURSIVE resolve_all(_, _)
resolve_all(names, matches) ==
    IF matches = << >> THEN << >>
    ELSE LET name == lower(Head(matches))
         IN  (IF name \in DOMAIN names THEN << names[name] >> ELSE << >>)
             \o resolve_all(names, Tail(matches))

\* MessageBus._parse_mentions
parse_mentions(names, text) == resolve_all(names, finditer(text, 1))

\* deque(maxlen=history_size).append
history_append(history, message) ==
    IF history_size = 0 THEN << >>
    ELSE IF Len(history) >= history_size
    THEN Append(Tail(history), message)
    ELSE Append(history, message)

\* a membership test that never finds the agent
in_recipients_never(recipients, agent_id) == FALSE

\* `agent not in recipients`, negated
in_recipients(recipients, agent_id) == agent_id \in Range(recipients)

\* _deliver_message: the loop over message.mentions
RECURSIVE add_mentions(_, _, _)
add_mentions(agents, recipients, mentions) ==
    IF mentions = << >> THEN recipients
    ELSE LET agent_id == Head(mentions)
             next == IF agent_id \in agents
                        /\ ~ in_recipients(recipients, agent_id)
                     THEN Append(recipients, agent_id)
                     ELSE recipients
         IN  add_mentions(agents, next, Tail(mentions))

\* _deliver_message: the recipients list
recipients_of(agents, names, message) ==
    add_mentions(agents,
                 IF message.recipient_id = BROADCAST
                 THEN values(agents)
                 ELSE get_agent(agents, names, message.recipient_id),
                 message.mentions)

\* a delivery that does not skip the sender
RECURSIVE receive_all_with_sender(_, _, _)
receive_all_with_sender(boxes, recipients, message) ==
    IF recipients = << >> THEN boxes
    ELSE receive_all_with_sender(
             [boxes EXCEPT ![Head(recipients)] = Append(@, message.id)],
             Tail(recipients), message)

\* _deliver_message: receive_message on every recipient but the sender; an
\* inbox holds the envelopes by id
RECURSIVE receive_all(_, _, _)
receive_all(boxes, recipients, message) ==
    IF recipients = << >> THEN boxes
    ELSE LET agent_id == Head(recipients)
             next == IF agent_id # message.sender_id
                     THEN [boxes EXCEPT ![agent_id] = Append(@, message.id)]
                     ELSE boxes
         IN  receive_all(next, Tail(recipients), message)

\* _notify_subscribers: the list stored under the type tag is extended in
\* place with the wildcard handlers; a tag nobody subscribed to gets a fresh
\* list that is not stored
notify_subscribers(subs, message_type) ==
    IF message_type \in DOMAIN subs
    THEN [subs EXCEPT ![message_type] =
              @ \o (IF "*" \in DOMAIN subs THEN subs["*"] ELSE << >>)]
    ELSE subs

\* MessageBus.__init__, and the empty inbox of every agent object
BusInit ==
    /\ bus_agents = {}
    /\ bus_names = << >>
    /\ bus_queue = << >>
    /\ bus_history = << >>
    /\ bus_subscribers = << >>
    /\ msg_count = 0
    /\ clock = 0
    /\ inbox = [a \in AgentPool |-> << >>]

\* the readings datetime.now() can give at the next call: the clock has not
\* moved since the last reading, or it has
Now == { t \in { clock, clock + 1 } : t <= MaxClock }

\* MessageBus.register_agent
Register(id) ==
    /\ bus_agents' = register_agents(bus_agents, id)
    /\ bus_names' = register_names(bus_names, id)
    /\ UNCHANGED << bus_queue, bus_history, bus_subscribers, msg_count, clock,
                    inbox >>
    /\ UNCHANGED << schedVars, agentVars, codecVars, confVars, notifyVars, planVars >>

\* MessageBus.unregister_agent
Unregister(id) ==
    /\ id \in bus_agents
    /\ bus_agents' = unregister_agents(bus_agents, id)
    /\ bus_names' = unregister_names(bus_names, id)
    /\ UNCHANGED << bus_queue, bus_history, bus_subscribers, msg_count, clock,
                    inbox >>
    /\ UNCHANGED << schedVars, agentVars, codecVars, confVars, notifyVars, planVars >>

\* MessageBus.send; now is the reading of datetime.now()
Send(sender_id, recipient_id, message_type, text, priority, now) ==
    LET message == [id |-> msg_count + 1,
                    sender_id |-> sender_id,
                    recipient_id |-> recipient_id,
                    message_type |-> message_type,
                    text |-> text,
                    timestamp |-> now,
                    priority |-> priority,
                    mentions |-> parse_mentions(bus_names, text)]
    IN  /\ clock' = now
        /\ msg_count' = msg_count + 1
        /\ bus_queue' = heappush(bus_queue,
                                 PrioritizedMessage(value_int(priority), now, message))
        /\ bus_history' = history_append(bus_history, message)
        /\ UNCHANGED << bus_agents, bus_names, bus_subscribers, inbox >>
        /\ UNCHANGED << schedVars, agentVars, codecVars, confVars, notifyVars, planVars >>

\* _notify_subscribers: the handlers it calls, which are the list under the type
\* tag after its extension, or the wildcard handlers alone
subscribers_of(subs, message_type) ==
    IF message_type \in DOMAIN subs
    THEN notify_subscribers(subs, message_type)[message_type]
    ELSE IF "*" \in DOMAIN subs THEN subs["*"] ELSE << >>

Call(handler, message_id, failing) ==
    [handler |-> handler, message |-> message_id,
     outcome |-> IF handler \in failing THEN "raised" ELSE "returned"]

\* mutant: the loop over the handlers ends at the first one that raises
RECURSIVE call_until_raise(_, _, _)
call_until_raise(handlers, message_id, failing) ==
    IF handlers = << >> THEN << >>
    ELSE IF Head(handlers) \in failing
    THEN << Call(Head(handlers), message_id, failing) >>
    ELSE << Call(Head(handlers), message_id, failing) >>
             \o call_until_raise(Tail(handlers), message_id, failing)

\* `for handler in handlers: try: handler(...) except Exception: log`: the
\* calls made, in order, each with its outcome
RECURSIVE call_handlers(_, _, _)
call_handlers(handlers, message_id, failing) ==
    IF handlers = << >> THEN << >>
    ELSE << Call(Head(handlers), message_id, failing) >>
             \o call_handlers(Tail(handlers), message_id, failing)

\* one turn of MessageBus._process_loop with a non-empty queue: heappop, then
\* _deliver_message. A receive_message that raises leaves the inbox as it is.
Deliver ==
    /\ bus_queue # << >>
    /\ LET popped == heappop(bus_queue)
           message == popped.item.message
           recipients == recipients_of(bus_agents, bus_names, message)
       IN  /\ bus_queue' = popped.heap
           /\ inbox' = receive_all(inbox,
                                   SelectSeq(recipients,
                                             LAMBDA a : a \notin raising_agents),
                                   message)
           /\ bus_subscribers' = notify_subscribers(bus_subscribers,
                                                    message.message_type)
           /\ handler_calls' =
                 handler_calls
                 \o call_handlers(subscribers_of(bus_subscribers, message.message_type),
                                  message.id, raising_handlers)
                 \o call_handlers(websocket_handlers, message.id, raising_handlers)
    /\ UNCHANGED << bus_agents, bus_names, bus_history, msg_count, clock,
                    websocket_handlers, raising_agents, raising_handlers >>
    /\ UNCHANGED << schedVars, agentVars, codecVars, confVars, planVars >>

\* ------------------------------------------------- the agent runtime: state
\* AgentStatus
IDLE == "idle"
WORKING == "working"
ERROR == "error"
STOPPED == "stopped"

\* The agent objects whose life cycle is followed: one QualityControlAgent,
\* whose stop() closes an HTTP client before BaseAgent.stop, and one
\* EmailWriterAgent, which inherits start and stop unchanged.
Agents == { QC1, EW1 }
ClosesClient == { QC1, QC2 }

\* who calls stop(): application code, _restart_agent, shutdown_all
Callers == { "user", "restart", "shutdown" }
Slots == Callers \X Agents

NoCall == [pc |-> "none", task |-> 0]
NoUse == [starts |-> 0, stops |-> 0, sweeps |-> 0, probes |-> 0, closes |-> 0,
          steps |-> 0, registers |-> 0]

\* BaseAgent.__init__ of every agent object and AgentRegistry.__init__
AgentInit ==
    /\ agent_running = [id \in Agents |-> FALSE]
    /\ agent_status = [id \in Agents |-> IDLE]
    /\ agent_task = [id \in Agents |-> 0]
    /\ agent_metrics = [id \in Agents |->
                          [tasks_completed |-> 0, tasks_failed |-> 0, errors |-> 0]]
    /\ http_client = [id \in Agents |-> FALSE]
    /\ run_loops = << >>
    /\ invocations = [id \in Agents |-> << >>]
    /\ registry_agents = << >>
    /\ registry_names = << >>
    /\ registry_types = << >>
    /\ restart_enabled = TRUE
    /\ stop_calls = [s \in Slots |-> NoCall]
    /\ health_pc = "sleep"
    /\ agents_to_restart = << >>
    /\ health = << >>
    /\ supervisor_log = << >>
    /\ shutdown_pc = "idle"
    /\ shutdown_tasks = << >>
    /\ used = NoUse

\* no envelope is being converted
CodecInit == envelope = << >> /\ data = << >> /\ rebuilt = << >>

\* MessageBus(): the default history_size
ConfInit == history_size = HistorySize

\* no observer is attached, no handler has been called, nothing raises
NotifyInit ==
    /\ websocket_handlers = << >>
    /\ handler_calls = << >>
    /\ raising_agents = {}
    /\ raising_handlers = {}

\* no subtask rows carry data, no title is being planned
PlanInit ==
    /\ merge_rows = << >>
    /\ merge_sent = << >>
    /\ llm_available = TRUE
    /\ plan_title = << >>
    /\ plan_description = << >>
    /\ plans_made = << >>

\* ---- the priority queue: sends of every priority to one registered agent
QueueInit ==
    /\ SchedInit
    /\ AgentInit
    /\ CodecInit
    /\ ConfInit
    /\ NotifyInit /\ PlanInit
    /\ bus_agents = register_agents({}, EW1)
    /\ bus_names = register_names(<< >>, EW1)
    /\ bus_queue = << >>
    /\ bus_history = << >>
    /\ bus_subscribers = << >>
    /\ msg_count = 0
    /\ clock = 0
    /\ inbox = [a \in AgentPool |-> << >>]

QueueNext ==
    \/ \E priority \in Priorities, now \in Now :
          /\ msg_count < MaxSends
          /\ Send(SYSTEM, EW1, "chat", << >>, priority, now)
    \/ Deliver

QueueSpec == QueueInit /\ [][QueueNext]_vars

\* ---- routing: agents come and go, envelopes with @mentions are routed
Senders == { SYSTEM, EW1 }
Recipients == { BROADCAST, QC1 }

BusNext ==
    \/ \E id \in AgentPool : Register(id)
    \/ \E id \in AgentPool : Unregister(id)
    \/ \E sender_id \in Senders, recipient_id \in Recipients, text \in Texts :
          /\ msg_count < MaxRouted
          /\ Send(sender_id, recipient_id, "chat", text, "normal", clock)
    \/ Deliver

\* ------------------------------------------------------- the scheduler's run
Init == SchedInit /\ BusInit /\ AgentInit /\ CodecInit /\ ConfInit /\ NotifyInit /\ PlanInit

Next == SchedNext

Spec == Init /\ [][Next]_vars

\* routing starts from the same state: a bus nobody has registered on
BusSpec == Init /\ [][BusNext]_vars

\* ------------------------------------------------------ scheduler claims

SubtaskIds == 1..Len(subtasks)

\* the subtasks of the same task that carry sequence index d
Carriers(tbl, sid, d) ==
    { k \in 1..Len(tbl) : tbl[k].task_id = tbl[sid].task_id /\ tbl[k].sequence_order = d }

\* B depends on A: same task, A's sequence index in B's dependency list
DependsOn(b, a) ==
    /\ subtasks[a].task_id = subtasks[b].task_id
    /\ subtasks[a].sequence_order \in Range(subtasks[b].depends_on)

EnvelopesFor(log, sid) == { i \in 1..Len(log) : log[i].subtask_id = sid }

\* the subtasks this step marks IN_PROGRESS
Dispatched(sid) ==
    /\ subtasks'[sid].status = IN_PROGRESS
    /\ sid > Len(subtasks) \/ subtasks[sid].status = PENDING

\* the subtasks this step sends an assignment envelope for
NewlyAssigned ==
    { assigned'[i].subtask_id : i \in (Len(assigned) + 1)..Len(assigned') }

\* C1: at most one assignment envelope is ever sent for each subtask, under
\* planning, completion and failure notices, duplicated notices, handler
\* retries and scheduler ticks.
C1_AtMostOneAssignment ==
    \A sid \in SubtaskIds : Cardinality(EnvelopesFor(assigned, sid)) <= 1

\* a duplicated notice and a retried handler have both been handled, and
\* two subtasks have been assigned
C1_Witness ==
    /\ Len(assigned) >= 2
    /\ dups >= 1
    /\ faults >= 1
    /\ tm_queue = << >>
    /\ tm_attempt = 0

\* C2: a step that dispatches a subtask (marks it IN_PROGRESS, sends its
\* assignment envelope) leaves every index of its dependency list carried by a
\* COMPLETED subtask of the same task.
C2_DispatchOnlyAfterDeps ==
    [][\A sid \in 1..Len(subtasks') :
          (Dispatched(sid) \/ sid \in NewlyAssigned) =>
              \A i \in 1..Len(subtasks'[sid].depends_on) :
                  \E k \in Carriers(subtasks', sid, subtasks'[sid].depends_on[i]) :
                      subtasks'[k].status = COMPLETED]_vars

\* the subtask that depends on {0,1} has been dispatched
C2_Witness ==
    \E sid \in SubtaskIds :
        /\ Len(subtasks[sid].depends_on) = 2
        /\ subtasks[sid].status = IN_PROGRESS
        /\ EnvelopesFor(assigned, sid) # {}

\* the moves a subtask's status may make
SubtaskMoves ==
    { <<PENDING, IN_PROGRESS>>, <<IN_PROGRESS, COMPLETED>>, <<IN_PROGRESS, FAILED>> }

\* C7: a subtask's persisted status only ever moves PENDING -> IN_PROGRESS ->
\* COMPLETED or FAILED: no step of the scheduler moves it backwards, skips
\* IN_PROGRESS or changes it once it is COMPLETED or FAILED; a row is created
\* PENDING (and may be dispatched by the planning step that creates it).
C7_SubtaskStatusMonotonic ==
    [][/\ Len(subtasks') >= Len(subtasks)
       /\ \A sid \in 1..Len(subtasks') :
            IF sid <= Len(subtasks)
            THEN \/ subtasks'[sid].status = subtasks[sid].status
                 \/ <<subtasks[sid].status, subtasks'[sid].status>> \in SubtaskMoves
            ELSE subtasks'[sid].status \in {PENDING, IN_PROGRESS}]_vars

\* a completion notice has been handled for a subtask that was COMPLETED
\* already (the duplicate), while another subtask is still IN_PROGRESS
C7_Witness ==
    /\ dups >= 1
    /\ tm_queue = << >>
    /\ \E a, b \in SubtaskIds :
          /\ subtasks[a].status = COMPLETED
          /\ Notice(TASK_SUBTASK_COMPLETE, a) \in notices
          /\ subtasks[b].status = IN_PROGRESS

AllSubtasksCompleted(t) ==
    \A sid \in SubtaskIds : subtasks[sid].task_id = t => subtasks[sid].status = COMPLETED

\* the scheduler is between two steps of its run loop, no retry pending
SchedulerAtRest == tm_pc = "recv" /\ tm_attempt = 0

C10_ChainCausality ==
    /\ [](\A a, b \in SubtaskIds :
            DependsOn(b, a) =>
              /\ Notice(TASK_FAILED, a) \in notices =>
                    /\ subtasks[b].status = PENDING
                    /\ EnvelopesFor(assigned, b) = {}
                    /\ subtasks[a].task_id \in failure_handled =>
                          tasks[subtasks[a].task_id].status = FAILED
              /\ tasks[subtasks[a].task_id].status = COMPLETED =>
                    /\ Notice(TASK_SUBTASK_COMPLETE, a) \in notices
                    /\ Notice(TASK_SUBTASK_COMPLETE, b) \in notices
                    /\ EnvelopesFor(assigned, b) # {})
    /\ [][\A a, b \in SubtaskIds :
            (DependsOn(b, a) /\ (Dispatched(b) \/ b \in NewlyAssigned)) =>
                /\ Notice(TASK_SUBTASK_COMPLETE, a) \in notices
                /\ subtasks'[a].status = COMPLETED]_vars

\* A's worker reported failure, the notice has been handled, the task is
\* FAILED and B, which depends on A, is still PENDING
C10_Witness ==
    \E a, b \in SubtaskIds :
        /\ DependsOn(b, a)
        /\ Notice(TASK_FAILED, a) \in notices
        /\ subtasks[a].task_id \in failure_handled
        /\ tasks[subtasks[a].task_id].status = FAILED
        /\ subtasks[b].status = PENDING
        /\ tm_queue = << >>

\* ------------------------------------------------- claims about the bus

\* the heap entries a step takes out of the queue
Popped ==
    { e \in Range(bus_queue) :
        \A f \in Range(bus_queue') : f.message.id # e.message.id }

\* the step is a pop of the delivery loop
Pops == Len(bus_queue') < Len(bus_queue)

\* the step is a send, and the envelope it built
Sends == msg_count' = msg_count + 1
SentMessage == bus_history'[Len(bus_history')]

\* urgent > high > normal > low
Urgency(p) ==
    CASE p = "urgent" -> 4
      [] p = "high" -> 3
      [] p = "normal" -> 2
      [] p = "low" -> 1

\* how often an inbox holds an envelope
Receipts(box, id) == Cardinality({ i \in 1..Len(box) : box[i] = id })

\* C3: every pop of the delivery loop removes an envelope whose priority is
\* the highest present in the queue at that moment, in whatever order the
\* envelopes were sent.
C3_PopsHighestPriority ==
    [][Pops => \A e \in Popped : \A f \in Range(bus_queue) :
                  Urgency(e.message.priority) >= Urgency(f.message.priority)]_vars

\* an envelope was delivered while an envelope sent before it, of lower
\* priority, is still queued
C3_Witness ==
    \E e \in Range(bus_queue) : \E i \in 1..Len(inbox[EW1]) :
        /\ inbox[EW1][i] > e.message.id
        /\ Urgency(bus_history[inbox[EW1][i]].priority)
              > Urgency(e.message.priority)

\* C4: among envelopes of equal priority every pop removes the one that was
\* sent first, equal creation timestamps included.
C4_FifoWithinPriority ==
    [][Pops => \A e \in Popped : \A f \in Range(bus_queue) :
                  f.message.priority = e.message.priority
                      => e.message.id <= f.message.id]_vars

\* C5: delivering a broadcast envelope puts it exactly once into the inbox
\* of every agent registered at that moment except the sender, and into no
\* other inbox, whoever is @mentioned in the text.
C5_BroadcastExactlyOnce ==
    [][Pops => \A e \in Popped :
                  e.message.recipient_id = BROADCAST
                      => \A a \in AgentPool :
                            inbox'[a] = IF a \in bus_agents /\ a # e.message.sender_id
                                        THEN Append(inbox[a], e.message.id)
                                        ELSE inbox[a]]_vars

\* a broadcast of a registered sender that mentions the sender and another
\* agent has been delivered: once to each of the two others, not to the sender
C5_Witness ==
    \E m \in Range(bus_history) :
        /\ m.recipient_id = BROADCAST
        /\ m.sender_id = EW1
        /\ EW1 \in Range(m.mentions)
        /\ Range(m.mentions) \cap { QC1, QC2 } # {}
        /\ Receipts(inbox[QC1], m.id) = 1
        /\ Receipts(inbox[QC2], m.id) = 1
        /\ Receipts(inbox[EW1], m.id) = 0

\* the name stands in the text as an @token, in any spelling of its letters
MentionsName(text, name) ==
    \E i \in 1..Len(text) :
        /\ text[i] = "@"
        /\ i + Len(name) <= Len(text)
        /\ lower(SubSeq(text, i + 1, i + Len(name))) = lower(name)
        /\ \/ i + Len(name) = Len(text)
           \/ ~ IsWordChar(text[i + Len(name) + 1])

\* C6: an agent that is registered when an envelope is sent and whose name
\* stands in the text as an @token is among the envelope's mentioned agents,
\* and a mentioned agent that is registered at delivery and is not the sender
\* receives the envelope exactly once, whether or not it is the primary
\* recipient and however often it is mentioned.
C6_MentionedReceivesOnce ==
    [][/\ Sends => \A a \in bus_agents :
                      MentionsName(SentMessage.text, agent_name(a))
                          => a \in Range(SentMessage.mentions)
       /\ Pops => \A e \in Popped : \A a \in bus_agents :
                      (a \in Range(e.message.mentions) /\ a # e.message.sender_id)
                          => inbox'[a] = Append(inbox[a], e.message.id)]_vars

\* ================================================== the cancel request
\* api/routes/tasks.py cancel_task: a task that is not COMPLETED, FAILED or
\* CANCELLED is written CANCELLED; the scheduler is not told
CancelTask(task_id) ==
    /\ task_id \in 1..Len(tasks)
    /\ tasks[task_id].status \notin { COMPLETED, FAILED, CANCELLED }
    /\ tasks' = update_task_status(tasks, task_id, CANCELLED)
    /\ UNCHANGED << subtasks, pending_tasks, active_tasks, tm_queue, tm_pc,
                    tm_attempt, tm_task, assigned, worker_inbox, notices,
                    failure_handled, faults, dups >>
    /\ UNCHANGED << busVars, agentVars, codecVars, confVars, notifyVars, planVars >>

ApiNext ==
    \/ SchedNext
    \/ \E task_id \in 1..Len(tasks) : CancelTask(task_id)

\* the scheduler with the cancel request of the API
ApiSpec == Init /\ [][ApiNext]_vars

\* PENDING < PLANNING < IN_PROGRESS < the three final statuses
StatusRank(status) ==
    CASE status = PENDING -> 0
      [] status = PLANNING -> 1
      [] status = IN_PROGRESS -> 2
      [] OTHER -> 3

\* C11: a task's status only moves forward along PENDING, PLANNING,
\* IN_PROGRESS, {COMPLETED, FAILED, CANCELLED}, and a task that is COMPLETED,
\* FAILED or CANCELLED keeps that status for good.
C11_TaskStatusMachine ==
    [][\A t \in 1..Len(tasks) :
          /\ StatusRank(tasks'[t].status) >= StatusRank(tasks[t].status)
          /\ tasks[t].status \in { COMPLETED, FAILED, CANCELLED }
                => tasks'[t].status = tasks[t].status]_vars

\* ============================================================ agent runtime
\* core/base_agent.py and core/registry.py. asyncio runs one coroutine at a
\* time and switches only at an await that suspends, so every action below is
\* the code between two suspensions of one coroutine.

MaxEnvelopes == 1
MaxStarts == 1
MaxStops == 2
MaxSweeps == 1
MaxProbeFaults == 1
MaxCloseFaults == 1
MaxStepFaults == 1
MaxRegisters == 1

\* everything outside the runtime but the inboxes and the envelope counter
restVars == << schedVars, bus_agents, bus_names, bus_queue, bus_history,
               bus_subscribers, clock, codecVars, confVars, notifyVars, planVars >>

\* ---- AgentRegistry.register, one operator per index
register_ids(ids, id) == IF id \in Range(ids) THEN ids ELSE Append(ids, id)

register_name(names, id) ==
    LET key == lower(agent_name(id))
    IN  [k \in DOMAIN names \cup { key } |-> IF k = key THEN id ELSE names[k]]

register_type(types, id) ==
    LET key == agent_type(id)
        old == IF key \in DOMAIN types THEN types[key] ELSE << >>
    IN  [k \in DOMAIN types \cup { key } |->
            IF k = key THEN register_ids(old, id) ELSE types[k]]

\* ---- AgentRegistry.unregister, one operator per index
unregister_ids(ids, id) == SelectSeq(ids, LAMBDA x : x # id)

unregister_name(ids, names, id) ==
    IF id \notin Range(ids) THEN names
    ELSE [k \in { a \in DOMAIN names : names[a] # id } |-> names[k]]

\* mutant: the type lists are left as they are
unregister_type_keep(ids, types, id) == types

unregister_type(ids, types, id) ==
    IF id \notin Range(ids) \/ agent_type(id) \notin DOMAIN types THEN types
    ELSE [types EXCEPT ![agent_type(id)] = SelectSeq(@, LAMBDA x : x # id)]

register(id) ==
    /\ registry_agents' = register_ids(registry_agents, id)
    /\ registry_names' = register_name(registry_names, id)
    /\ registry_types' = register_type(registry_types, id)

unregister(id) ==
    /\ registry_agents' = unregister_ids(registry_agents, id)
    /\ registry_names' = unregister_name(registry_agents, registry_names, id)
    /\ registry_types' = unregister_type(registry_agents, registry_types, id)

\* ---- BaseAgent.start, with the client QualityControlAgent.start creates first
\* a task about to run _run_loop. `before` is history: the metrics as they were
\* when the loop took the envelope it is handling.
NoMetrics == [tasks_completed |-> 0, tasks_failed |-> 0, errors |-> 0]

NewLoop(id) ==
    [agent |-> id, pc |-> "new", must_cancel |-> FALSE, message |-> 0,
     attempt |-> 0, before |-> NoMetrics]

\* a start() that leaves the status as it finds it
start_keep_status(id) ==
    /\ http_client' = IF id \in ClosesClient
                      THEN [http_client EXCEPT ![id] = TRUE]
                      ELSE http_client
    /\ UNCHANGED agent_status
    /\ IF agent_running[id]
       THEN UNCHANGED << agent_running, agent_task, run_loops, registry_agents,
                         registry_names, registry_types >>
       ELSE /\ agent_running' = [agent_running EXCEPT ![id] = TRUE]
            /\ register(id)
            /\ run_loops' = Append(run_loops, NewLoop(id))
            /\ agent_task' = [agent_task EXCEPT ![id] = Len(run_loops) + 1]

\* BaseAgent.start as QualityControlAgent.start reaches it
start(id) ==
    /\ http_client' = IF id \in ClosesClient
                      THEN [http_client EXCEPT ![id] = TRUE]
                      ELSE http_client
    /\ IF agent_running[id]
       THEN UNCHANGED << agent_running, agent_status, agent_task, run_loops,
                         registry_agents, registry_names, registry_types >>
       ELSE /\ agent_running' = [agent_running EXCEPT ![id] = TRUE]
            /\ agent_status' = [agent_status EXCEPT ![id] = IDLE]
            /\ register(id)
            /\ run_loops' = Append(run_loops, NewLoop(id))
            /\ agent_task' = [agent_task EXCEPT ![id] = Len(run_loops) + 1]

\* ---- BaseAgent.stop from its first line to `await self._task`; awaiting a
\* task that is done does not suspend, so stop() then runs to its end
Returned(task) == [pc |-> "returned", task |-> task]

\* no loop task stands between the handler's finally and the loop's except
\* branch: that stretch has no await, so no other coroutine runs inside it
Settled == \A t \in 1..Len(run_loops) : run_loops[t].pc # "raised"

stop(s) ==
    LET id == s[2]
        task == agent_task[id]
    IN  /\ Settled
        /\ IF ~ agent_running[id]
           THEN /\ stop_calls' = [stop_calls EXCEPT ![s] = Returned(task)]
                /\ UNCHANGED << agent_running, agent_status, run_loops,
                                registry_agents, registry_names, registry_types >>
           ELSE /\ agent_running' = [agent_running EXCEPT ![id] = FALSE]
                /\ agent_status' = [agent_status EXCEPT ![id] = STOPPED]
                /\ IF task = 0 \/ run_loops[task].pc = "done"
                   THEN /\ unregister(id)
                        /\ stop_calls' = [stop_calls EXCEPT ![s] = Returned(task)]
                        /\ UNCHANGED run_loops
                   ELSE /\ run_loops' = [run_loops EXCEPT ![task].must_cancel = TRUE]
                        /\ stop_calls' = [stop_calls EXCEPT
                                             ![s] = [pc |-> "join", task |-> task]]
                        /\ UNCHANGED << registry_agents, registry_names,
                                        registry_types >>

\* what no part of stop() touches
StopFrame ==
    UNCHANGED << agent_task, agent_metrics, http_client, invocations,
                 restart_enabled, health_pc, agents_to_restart, health,
                 supervisor_log, shutdown_pc, shutdown_tasks, inbox, msg_count,
                 restVars >>

\* the call begins: QualityControlAgent.stop awaits aclose() of its client
\* first, every other agent goes straight into BaseAgent.stop
StopEnter(s) ==
    /\ stop_calls[s].pc = "called"
    /\ IF s[2] \in ClosesClient /\ http_client[s[2]]
       THEN /\ stop_calls' = [stop_calls EXCEPT ![s] = [pc |-> "aclose", task |-> 0]]
            /\ UNCHANGED << agent_running, agent_status, run_loops,
                            registry_agents, registry_names, registry_types >>
       ELSE stop(s)
    /\ UNCHANGED used
    /\ StopFrame

\* aclose() returned: super().stop()
StopClosed(s) ==
    /\ stop_calls[s].pc = "aclose"
    /\ stop(s)
    /\ UNCHANGED used
    /\ StopFrame

\* aclose() raised: the exception leaves stop() before BaseAgent.stop runs
StopCloseRaises(s) ==
    /\ stop_calls[s].pc = "aclose"
    /\ used.closes < MaxCloseFaults
    /\ used' = [used EXCEPT !.closes = @ + 1]
    /\ stop_calls' = [stop_calls EXCEPT ![s] = [pc |-> "raised", task |-> 0]]
    /\ UNCHANGED << agent_running, agent_status, run_loops, registry_agents,
                    registry_names, registry_types >>
    /\ StopFrame

\* the awaited loop task is done: unregister and return
StopJoined(s) ==
    /\ stop_calls[s].pc = "join"
    /\ run_loops[stop_calls[s].task].pc = "done"
    /\ unregister(s[2])
    /\ stop_calls' = [stop_calls EXCEPT ![s] = Returned(stop_calls[s].task)]
    /\ UNCHANGED << agent_running, agent_status, run_loops, used >>
    /\ StopFrame

\* ---- BaseAgent._run_loop and _process_message_with_retry
\* what no step of a run loop touches
LoopFrame ==
    UNCHANGED << agent_running, agent_task, http_client, registry_agents,
                 registry_names, registry_types, restart_enabled, stop_calls,
                 health_pc, agents_to_restart, health, supervisor_log,
                 shutdown_pc, shutdown_tasks, msg_count, restVars >>

Alive(t) == run_loops[t].pc # "done"
Runs(t) == Alive(t) /\ ~ run_loops[t].must_cancel

\* `while self._running`
top(id) == IF agent_running[id] THEN "wait" ELSE "done"
\* `if self._running: await self.run()`, and the loop test when it is false
step(id) == IF agent_running[id] THEN "run" ELSE "done"

\* CancelledError is thrown into the task at the await it is suspended in. It
\* is no Exception: only the `finally` of _process_message_with_retry runs.
LoopCancelled(t) ==
    LET id == run_loops[t].agent
    IN  /\ Alive(t)
        /\ run_loops[t].must_cancel
        /\ run_loops' = [run_loops EXCEPT ![t].pc = "done"]
        /\ agent_status' = IF run_loops[t].pc = "handle"
                           THEN [agent_status EXCEPT ![id] = IDLE]
                           ELSE agent_status
        /\ UNCHANGED << agent_metrics, invocations, inbox, used >>
        /\ LoopFrame

\* the task runs for the first time
LoopStart(t) ==
    /\ Runs(t)
    /\ run_loops[t].pc = "new"
    /\ run_loops' = [run_loops EXCEPT ![t].pc = top(run_loops[t].agent)]
    /\ UNCHANGED << agent_status, agent_metrics, invocations, inbox, used >>
    /\ LoopFrame

\* queue.get() gave an envelope: first attempt of the handler
LoopGet(t) ==
    LET id == run_loops[t].agent
        message == Head(inbox[id])
    IN  /\ Runs(t)
        /\ run_loops[t].pc = "wait"
        /\ inbox[id] # << >>
        /\ inbox' = [inbox EXCEPT ![id] = Tail(@)]
        /\ agent_status' = [agent_status EXCEPT ![id] = WORKING]
        /\ invocations' = [invocations EXCEPT ![id] = Append(@, message)]
        /\ run_loops' = [run_loops EXCEPT ![t].pc = "handle",
                                          ![t].message = message,
                                          ![t].attempt = 1,
                                          ![t].before = agent_metrics[id]]
        /\ UNCHANGED << agent_metrics, used >>
        /\ LoopFrame

\* wait_for timed out on an empty inbox
LoopTimeout(t) ==
    LET id == run_loops[t].agent
    IN  /\ Runs(t)
        /\ run_loops[t].pc = "wait"
        /\ inbox[id] = << >>
        /\ run_loops' = [run_loops EXCEPT ![t].pc = step(id)]
        /\ UNCHANGED << agent_status, agent_metrics, invocations, inbox, used >>
        /\ LoopFrame

\* process_message returned
HandlerReturns(t) ==
    LET id == run_loops[t].agent
    IN  /\ Runs(t)
        /\ run_loops[t].pc = "handle"
        /\ agent_metrics' = [agent_metrics EXCEPT ![id].tasks_completed = @ + 1]
        /\ agent_status' = [agent_status EXCEPT ![id] = IDLE]
        /\ run_loops' = [run_loops EXCEPT ![t].pc = step(id)]
        /\ UNCHANGED << invocations, inbox, used >>
        /\ LoopFrame

\* process_message raised: the attempt is counted as failed and the finally
\* sets IDLE; tenacity sleeps and calls again, or after the third attempt
\* re-raises into the loop
HandlerRaises(t) ==
    LET id == run_loops[t].agent
        last == run_loops[t].attempt >= MaxAttempts
    IN  /\ Runs(t)
        /\ run_loops[t].pc = "handle"
        /\ agent_metrics' = [agent_metrics EXCEPT
                                ![id].tasks_failed = @ + 1,
                                ![id].errors = @ + 1]
        /\ agent_status' = [agent_status EXCEPT ![id] = IDLE]
        /\ run_loops' = [run_loops EXCEPT ![t].pc = IF last THEN "raised" ELSE "retry"]
        /\ UNCHANGED << invocations, inbox, used >>
        /\ LoopFrame

\* the `except Exception` branch of _run_loop after the handler's last attempt,
\* up to its sleep; no await lies between the handler's finally and this
LoopCatches(t) ==
    LET id == run_loops[t].agent
    IN  /\ Runs(t)
        /\ run_loops[t].pc = "raised"
        /\ agent_status' = [agent_status EXCEPT ![id] = ERROR]
        /\ agent_metrics' = [agent_metrics EXCEPT ![id].errors = @ + 1]
        /\ run_loops' = [run_loops EXCEPT ![t].pc = "backoff"]
        /\ UNCHANGED << invocations, inbox, used >>
        /\ LoopFrame

\* tenacity's pause is over: the next attempt
HandlerRetry(t) ==
    LET id == run_loops[t].agent
    IN  /\ Runs(t)
        /\ run_loops[t].pc = "retry"
        /\ agent_status' = [agent_status EXCEPT ![id] = WORKING]
        /\ invocations' = [invocations EXCEPT ![id] = Append(@, run_loops[t].message)]
        /\ run_loops' = [run_loops EXCEPT ![t].pc = "handle", ![t].attempt = @ + 1]
        /\ UNCHANGED << agent_metrics, inbox, used >>
        /\ LoopFrame

\* run() returned
StepReturns(t) ==
    /\ Runs(t)
    /\ run_loops[t].pc = "run"
    /\ run_loops' = [run_loops EXCEPT ![t].pc = top(run_loops[t].agent)]
    /\ UNCHANGED << agent_status, agent_metrics, invocations, inbox, used >>
    /\ LoopFrame

\* run() raised
StepRaises(t) ==
    LET id == run_loops[t].agent
    IN  /\ Runs(t)
        /\ run_loops[t].pc = "run"
        /\ used.steps < MaxStepFaults
        /\ used' = [used EXCEPT !.steps = @ + 1]
        /\ agent_status' = [agent_status EXCEPT ![id] = ERROR]
        /\ agent_metrics' = [agent_metrics EXCEPT ![id].errors = @ + 1]
        /\ run_loops' = [run_loops EXCEPT ![t].pc = "backoff"]
        /\ UNCHANGED << invocations, inbox >>
        /\ LoopFrame

\* mutant: the loop task ends after the backoff
BackoffEnds(t) ==
    /\ Runs(t)
    /\ run_loops[t].pc = "backoff"
    /\ run_loops' = [run_loops EXCEPT ![t].pc = "done"]
    /\ UNCHANGED << agent_status, agent_metrics, invocations, inbox, used >>
    /\ LoopFrame

\* `await asyncio.sleep(5)` is over
BackoffOver(t) ==
    /\ Runs(t)
    /\ run_loops[t].pc = "backoff"
    /\ run_loops' = [run_loops EXCEPT ![t].pc = top(run_loops[t].agent)]
    /\ UNCHANGED << agent_status, agent_metrics, invocations, inbox, used >>
    /\ LoopFrame

\* ---- the callers
\* application code starts an agent. It does so while no restart and no
\* shutdown is under way.
UserStart(id) ==
    /\ used.starts < MaxStarts
    /\ health_pc = "sleep"
    /\ shutdown_pc = "idle"
    /\ used' = [used EXCEPT !.starts = @ + 1]
    /\ start(id)
    /\ UNCHANGED << agent_metrics, invocations, restart_enabled, stop_calls,
                    health_pc, agents_to_restart, health, supervisor_log,
                    shutdown_pc, shutdown_tasks, inbox, msg_count, restVars >>

\* application code calls stop() and awaits it
UserStop(id) ==
    /\ used.stops < MaxStops
    /\ stop_calls[<< "user", id >>].pc \in { "none", "returned", "raised" }
    /\ used' = [used EXCEPT !.stops = @ + 1]
    /\ stop_calls' = [stop_calls EXCEPT ![<< "user", id >>] = [pc |-> "called", task |-> 0]]
    /\ UNCHANGED << agent_running, agent_status, run_loops, registry_agents,
                    registry_names, registry_types >>
    /\ StopFrame

\* registry.register(agent) called directly, as the tests do, for an agent
\* that was not started
RegisterDirect(id) ==
    /\ used.registers < MaxRegisters
    /\ id \notin Range(registry_agents)
    /\ used' = [used EXCEPT !.registers = @ + 1]
    /\ register(id)
    /\ UNCHANGED << agent_running, agent_status, agent_task, agent_metrics,
                    http_client, run_loops, invocations, restart_enabled,
                    stop_calls, health_pc, agents_to_restart, health,
                    supervisor_log, shutdown_pc, shutdown_tasks, inbox,
                    msg_count, restVars >>

\* BaseAgent.receive_message: the bus puts an envelope into the inbox
Receive(id) ==
    /\ msg_count < MaxEnvelopes
    /\ msg_count' = msg_count + 1
    /\ inbox' = [inbox EXCEPT ![id] = Append(@, msg_count + 1)]
    /\ UNCHANGED << agentVars, restVars >>

\* ---- AgentRegistry._check_all_agents and _restart_agent
Entries(tag, ids) == [i \in 1..Len(ids) |-> << tag, ids[i] >>]

\* after one agent of the list: the next one, or back to the interval sleep
NextRestart(rest) == IF rest = << >> THEN "sleep" ELSE "restart"

\* the sweep under the lock: health_check of every registered agent returns
\* the running flag or raises; `limit` bounds the number of sweeps
CheckAllAgentsWithin(limit, raising) ==
    LET probe == [id \in Range(registry_agents) |->
                     IF id \in raising THEN "raised"
                     ELSE IF agent_running[id] THEN "true" ELSE "false"]
        queued == SelectSeq(registry_agents,
                            LAMBDA id : probe[id] # "true" /\ restart_enabled)
    IN  /\ health_pc = "sleep"
        /\ used.sweeps < limit
        /\ Cardinality(raising) <= MaxProbeFaults - used.probes
        /\ used' = [used EXCEPT !.sweeps = @ + 1,
                                !.probes = @ + Cardinality(raising)]
        /\ health' = probe
        /\ agents_to_restart' = queued
        /\ supervisor_log' = supervisor_log \o Entries("queue", queued)
        /\ health_pc' = NextRestart(queued)
        /\ UNCHANGED << agent_running, agent_status, agent_task, agent_metrics,
                        http_client, run_loops, invocations, registry_agents,
                        registry_names, registry_types, restart_enabled,
                        stop_calls, shutdown_pc, shutdown_tasks, inbox,
                        msg_count, restVars >>

\* the sweeps of the health loop, MaxSweeps of them
CheckAllAgents(raising) == CheckAllAgentsWithin(MaxSweeps, raising)

\* _restart_agent: `await agent.stop()`
RestartStop ==
    LET id == Head(agents_to_restart)
    IN  /\ health_pc = "restart"
        /\ health_pc' = "stopping"
        /\ stop_calls' = [stop_calls EXCEPT
                             ![<< "restart", id >>] = [pc |-> "called", task |-> 0]]
        /\ supervisor_log' = Append(supervisor_log, << "stop", id >>)
        /\ UNCHANGED << agent_running, agent_status, agent_task, agent_metrics,
                        http_client, run_loops, invocations, registry_agents,
                        registry_names, registry_types, restart_enabled,
                        agents_to_restart, health, shutdown_pc, shutdown_tasks,
                        used, inbox, msg_count, restVars >>

\* stop() returned: `await asyncio.sleep(1)`
RestartPause ==
    /\ health_pc = "stopping"
    /\ stop_calls[<< "restart", Head(agents_to_restart) >>].pc = "returned"
    /\ health_pc' = "pause"
    /\ UNCHANGED << agent_running, agent_status, agent_task, agent_metrics,
                    http_client, run_loops, invocations, registry_agents,
                    registry_names, registry_types, restart_enabled, stop_calls,
                    agents_to_restart, health, supervisor_log, shutdown_pc,
                    shutdown_tasks, used, inbox, msg_count, restVars >>

\* stop() raised: `except Exception` logs it, the agent is not started
RestartFailed ==
    LET id == Head(agents_to_restart)
    IN  /\ health_pc = "stopping"
        /\ stop_calls[<< "restart", id >>].pc = "raised"
        /\ supervisor_log' = Append(supervisor_log, << "raise", id >>)
        /\ agents_to_restart' = Tail(agents_to_restart)
        /\ health_pc' = NextRestart(Tail(agents_to_restart))
        /\ UNCHANGED << agent_running, agent_status, agent_task, agent_metrics,
                        http_client, run_loops, invocations, registry_agents,
                        registry_names, registry_types, restart_enabled,
                        stop_calls, health, shutdown_pc, shutdown_tasks, used,
                        inbox, msg_count, restVars >>

\* the pause is over: `await agent.start()`
RestartStart ==
    LET id == Head(agents_to_restart)
    IN  /\ health_pc = "pause"
        /\ start(id)
        /\ supervisor_log' = Append(supervisor_log, << "start", id >>)
        /\ agents_to_restart' = Tail(agents_to_restart)
        /\ health_pc' = NextRestart(Tail(agents_to_restart))
        /\ UNCHANGED << agent_metrics, invocations, restart_enabled, stop_calls,
                        health, shutdown_pc, shutdown_tasks, used, inbox,
                        msg_count, restVars >>

\* ---- AgentRegistry.shutdown_all
\* up to the gather: restarts are disabled, one stop() per registered agent
ShutdownAll ==
    /\ shutdown_pc = "idle"
    /\ restart_enabled' = FALSE
    /\ shutdown_tasks' = registry_agents
    /\ stop_calls' = [s \in Slots |->
                         IF s[1] = "shutdown" /\ s[2] \in Range(registry_agents)
                         THEN [pc |-> "called", task |-> 0]
                         ELSE stop_calls[s]]
    /\ shutdown_pc' = IF registry_agents = << >> THEN "returned" ELSE "gather"
    /\ UNCHANGED << agent_running, agent_status, agent_task, agent_metrics,
                    http_client, run_loops, invocations, registry_agents,
                    registry_names, registry_types, health_pc,
                    agents_to_restart, health, supervisor_log, used, inbox,
                    msg_count, restVars >>

\* gather(..., return_exceptions=True) is over when every stop() has returned
\* or raised
ShutdownReturn ==
    /\ shutdown_pc = "gather"
    /\ \A id \in Range(shutdown_tasks) :
          stop_calls[<< "shutdown", id >>].pc \in { "returned", "raised" }
    /\ shutdown_pc' = "returned"
    /\ UNCHANGED << agent_running, agent_status, agent_task, agent_metrics,
                    http_client, run_loops, invocations, registry_agents,
                    registry_names, registry_types, restart_enabled, stop_calls,
                    health_pc, agents_to_restart, health, supervisor_log,
                    shutdown_tasks, used, inbox, msg_count, restVars >>

\* ---- one agent's life: application code starts and stops the agent, envelopes
\* arrive, its handler and its step function return or raise. The agent
\* followed is the QualityControlAgent, whose stop() has the extra await.
Subject == QC1
UserSlot == << "user", Subject >>

AgentNext ==
    \/ UserStart(Subject)
    \/ UserStop(Subject)
    \/ Receive(Subject)
    \/ StopEnter(UserSlot)
    \/ StopClosed(UserSlot)
    \/ StopCloseRaises(UserSlot)
    \/ StopJoined(UserSlot)
    \/ \E t \in 1..Len(run_loops) : LoopCancelled(t)
    \/ \E t \in 1..Len(run_loops) : LoopStart(t)
    \/ \E t \in 1..Len(run_loops) : LoopGet(t)
    \/ \E t \in 1..Len(run_loops) : LoopTimeout(t)
    \/ \E t \in 1..Len(run_loops) : HandlerReturns(t)
    \/ \E t \in 1..Len(run_loops) : HandlerRaises(t)
    \/ \E t \in 1..Len(run_loops) : LoopCatches(t)
    \/ \E t \in 1..Len(run_loops) : HandlerRetry(t)
    \/ \E t \in 1..Len(run_loops) : StepReturns(t)
    \/ \E t \in 1..Len(run_loops) : StepRaises(t)
    \/ \E t \in 1..Len(run_loops) : BackoffOver(t)

AgentSpec == Init /\ [][AgentNext]_vars

\* ---- the registry's health loop and shutdown_all over agents whose inboxes
\* stay empty and whose step functions return
RegistryNext ==
    \/ \E id \in Agents : UserStart(id)
    \/ \E id \in Agents : RegisterDirect(id)
    \/ \E s \in Slots : StopEnter(s)
    \/ \E s \in Slots : StopClosed(s)
    \/ \E s \in Slots : StopCloseRaises(s)
    \/ \E s \in Slots : StopJoined(s)
    \/ \E t \in 1..Len(run_loops) : LoopCancelled(t)
    \/ \E t \in 1..Len(run_loops) : LoopStart(t)
    \/ \E t \in 1..Len(run_loops) : LoopTimeout(t)
    \/ \E t \in 1..Len(run_loops) : StepReturns(t)
    \/ \E raising \in SUBSET Range(registry_agents) : CheckAllAgents(raising)
    \/ RestartStop
    \/ RestartPause
    \/ RestartFailed
    \/ RestartStart
    \/ ShutdownAll
    \/ ShutdownReturn

RegistrySpec == Init /\ [][RegistryNext]_vars

\* ================================================== claims: the agent runtime
\* a call of stop() returns in this step
StopReturns(s) == stop_calls[s].pc # "returned" /\ stop_calls'[s].pc = "returned"

\* C12: when a call of stop() on an agent that has been started returns, and no
\* start() has taken effect since the call looked at the agent, the agent's
\* status is STOPPED and it is not running. This covers the first stop() of a
\* running agent, whatever its run loop was doing, and every later stop().
C12_StopLeavesStopped ==
    [][\A s \in Slots :
          StopReturns(s) /\ stop_calls'[s].task # 0
                         /\ stop_calls'[s].task = agent_task'[s[2]]
             => /\ agent_status'[s[2]] = STOPPED
                /\ ~ agent_running'[s[2]]]_vars

\* C13: when a call of stop() returns, the run loop the agent had when the call
\* looked at it has finished.
C13_StopReturnsAfterLoopExit ==
    [][\A s \in Slots :
          StopReturns(s) /\ stop_calls'[s].task # 0
             => run_loops'[stop_calls'[s].task].pc = "done"]_vars

\* how often the health loop has logged `tag` for agent id
Logged(log, tag, id) ==
    Cardinality({ i \in 1..Len(log) : log[i] = << tag, id >> })

NoDuplicates(seq) == \A i, j \in 1..Len(seq) : seq[i] = seq[j] => i = j

\* the health loop starts an agent in this step
Restarts(id) ==
    Logged(supervisor_log', "start", id) > Logged(supervisor_log, "start", id)

ShutdownReturns == shutdown_pc # "returned" /\ shutdown_pc' = "returned"

\* C15: when shutdown_all returns, the stop() of every agent that was
\* registered at the call has returned or raised, and no agent whose stop()
\* returned is running.
C15_ShutdownStopsAll ==
    [][ShutdownReturns
          => \A id \in Range(shutdown_tasks') :
                /\ stop_calls'[<< "shutdown", id >>].pc \in { "returned", "raised" }
                /\ stop_calls'[<< "shutdown", id >>].pc = "returned"
                      => ~ agent_running'[id]]_vars

\* the handler returns in this step, on the attempt given
Succeeds(t, attempt) ==
    /\ t <= Len(run_loops)
    /\ run_loops[t].pc = "handle"
    /\ run_loops[t].attempt = attempt
    /\ agent_metrics'[run_loops[t].agent].tasks_completed
          > agent_metrics[run_loops[t].agent].tasks_completed

\* how often process_message was called on the envelope
Invoked(id, message) ==
    Cardinality({ i \in 1..Len(invocations[id]) : invocations[id][i] = message })

\* C16: when the handler succeeds on the third attempt for an envelope,
\* tasks_completed is one more and tasks_failed the same as when the envelope
\* was taken from the inbox, and the handler has been called three times on
\* it; the handler is never called more than three times on one envelope.
C16_RetryMetrics ==
    [][\A t \in 1..Len(run_loops) :
          LET id == run_loops[t].agent
          IN  /\ Succeeds(t, MaxAttempts)
                    => /\ agent_metrics'[id].tasks_completed
                             = run_loops[t].before.tasks_completed + 1
                       /\ agent_metrics'[id].tasks_failed
                             = run_loops[t].before.tasks_failed
                       /\ Invoked(id, run_loops[t].message) = MaxAttempts
              /\ \A message \in 1..msg_count : Invoked(id, message) <= MaxAttempts]_vars

\* ====================================== create_task with the bus attached
\* agents/task_manager.py create_task and process_message, core/message_bus.py
\* send and _deliver_message: the scheduler and one worker are registered on
\* the bus, tasks are created through the API, the worker broadcasts chat.

\* the titles the API passes: one spelled like a mention of the scheduler
TitlePlain == << "r", "e", "p", "o", "r", "t" >>
TitleMention == << "@", "T", "a", "s", "k", "M", "a", "n", "a", "g", "e", "r" >>
Titles == { TitlePlain, TitleMention }

\* MessageBus.send: `if "text" in payload: mentions = self._parse_mentions(...)`
payload_mentions(names, payload) ==
    IF "text" \in DOMAIN payload THEN parse_mentions(names, payload.text) ELSE << >>

\* the envelope an inbox entry stands for
MessageIn(history, id) == CHOOSE m \in Range(history) : m.id = id
MessageOf(id) == MessageIn(bus_history, id)

\* TaskManagerAgent.run with the pending list as the handler left it
run_after(pending, ttbl, stbl, active) ==
    IF pending # << >>
    THEN /\ tm_task' = Head(pending)
         /\ pending_tasks' = Tail(pending)
         /\ tasks' = update_task_status(ttbl, Head(pending), PLANNING)
         /\ active_tasks' = active
         /\ tm_pc' = "planning"
    ELSE /\ tasks' = SweepTasks(ttbl, stbl, active)
         /\ active_tasks' = SweepActive(stbl, active)
         /\ tm_pc' = "recv"
         /\ pending_tasks' = pending
         /\ UNCHANGED tm_task

CreateInit ==
    /\ SchedInit
    /\ AgentInit
    /\ CodecInit
    /\ ConfInit
    /\ NotifyInit /\ PlanInit
    /\ bus_agents = register_agents(register_agents({}, TM1), EW1)
    /\ bus_names = register_names(register_names(<< >>, TM1), EW1)
    /\ bus_queue = << >>
    /\ bus_history = << >>
    /\ bus_subscribers = << >>
    /\ msg_count = 0
    /\ clock = 0
    /\ inbox = [a \in AgentPool \cup { TM1 } |-> << >>]

\* TaskManagerAgent.create_task: the row, the pending list, the broadcast
CreateTaskBroadcast(title) ==
    LET task_id == Len(tasks) + 1
        payload == [task_id |-> task_id, title |-> title]
        message == [id |-> msg_count + 1,
                    sender_id |-> TM1,
                    recipient_id |-> BROADCAST,
                    message_type |-> TASK_CREATED,
                    text |-> << >>,
                    payload |-> payload,
                    timestamp |-> clock,
                    priority |-> "normal",
                    mentions |-> payload_mentions(bus_names, payload)]
    IN  /\ Len(tasks) < MaxTasks
        /\ tasks' = Append(tasks, create_task_row)
        /\ pending_tasks' = Append(pending_tasks, task_id)
        /\ msg_count' = msg_count + 1
        /\ bus_queue' = heappush(bus_queue,
                                 PrioritizedMessage(value_int("normal"), clock, message))
        /\ bus_history' = history_append(bus_history, message)
        /\ UNCHANGED << subtasks, active_tasks, tm_queue, tm_pc, tm_attempt,
                        tm_task, assigned, worker_inbox, notices,
                        failure_handled, faults, dups >>
        /\ UNCHANGED << bus_agents, bus_names, bus_subscribers, clock, inbox >>
        /\ UNCHANGED << agentVars, codecVars, confVars, notifyVars, planVars >>

\* the scheduler's run loop takes a bus envelope from its inbox:
\* process_message, where only TASK_CREATED changes anything here, then run()
HandleEnvelope ==
    LET message == MessageOf(Head(inbox[TM1]))
        pending == IF message.message_type = TASK_CREATED
                   THEN Append(pending_tasks, message.payload.task_id)
                   ELSE pending_tasks
    IN  /\ tm_pc = "recv"
        /\ inbox[TM1] # << >>
        /\ inbox' = [inbox EXCEPT ![TM1] = Tail(@)]
        /\ run_after(pending, tasks, subtasks, active_tasks)
        /\ UNCHANGED << subtasks, tm_queue, tm_attempt, assigned, worker_inbox,
                        notices, failure_handled, faults, dups >>
        /\ UNCHANGED << bus_agents, bus_names, bus_queue, bus_history,
                        bus_subscribers, msg_count, clock >>
        /\ UNCHANGED << agentVars, codecVars, confVars, notifyVars, planVars >>

CreateNext ==
    \/ \E title \in Titles : CreateTaskBroadcast(title)
    \/ \E text \in Texts :
          /\ Cardinality({ m \in Range(bus_history) : m.sender_id = EW1 }) < MaxRouted
          /\ Send(EW1, BROADCAST, "chat", text, "normal", clock)
    \/ Deliver
    \/ HandleEnvelope
    \/ inbox[TM1] = << >> /\ RecvTimeout
    \/ \E plan \in Plans, fault \in {"none"} \cup PlanFaults :
          PlanFinish(plan, fault)

CreateSpec == CreateInit /\ [][CreateNext]_vars

\* how often the id is in the list
Occurrences(seq, x) == Cardinality({ i \in 1..Len(seq) : seq[i] = x })

PlanningRaises(fault) == \E plan \in Plans : PlanFinish(plan, fault)

FrameInit ==
    /\ tasks = << create_task_row, create_task_row >>
    /\ pending_tasks = << 1, 2 >>
    /\ subtasks = << >>
    /\ active_tasks = {}
    /\ tm_queue = << >>
    /\ tm_pc = "recv"
    /\ tm_attempt = 0
    /\ tm_task = 0
    /\ assigned = << >>
    /\ worker_inbox = {}
    /\ notices = {}
    /\ failure_handled = {}
    /\ faults = 0
    /\ dups = 0
    /\ BusInit
    /\ AgentInit
    /\ CodecInit
    /\ ConfInit
    /\ NotifyInit /\ PlanInit

FrameNext ==
    \/ RecvTimeout
    \/ \E fault \in {"none", "db", "send"} : HandleNotice(fault)
    \/ \E plan \in Plans, fault \in {"none"} \cup PlanFaults :
          PlanFinish(plan, fault)
    \/ \E sid \in 1..Len(subtasks) : WorkerComplete(sid)
    \/ \E sid \in 1..Len(subtasks) : WorkerFail(sid)
    \/ \E n \in notices : DuplicateNotice(n)

\* the scheduler with two tasks created
FrameSpec == FrameInit /\ [][FrameNext]_vars

\* the scheduler is about to handle a failure notice
FailureNoticeNext ==
    tm_pc = "recv" /\ tm_queue # << >> /\ Head(tm_queue).type = TASK_FAILED

\* what _handle_task_failure leaves of every task but task_id
OthersUnchanged(task_id) ==
    LET r == handle_task_failure(task_id, "none")
    IN  /\ Len(r.tasks) = Len(tasks)
        /\ Len(r.subtasks) = Len(subtasks)
        /\ \A u \in 1..Len(tasks) :
              u # task_id =>
                  /\ r.tasks[u] = tasks[u]
                  /\ u \in r.active <=> u \in active_tasks
        /\ \A i \in 1..Len(subtasks) :
              subtasks[i].task_id # task_id => r.subtasks[i] = subtasks[i]
        /\ r.sent = << >>

\* the rows of task u that can run once row sid is COMPLETED: PENDING, every
\* dependency the sequence order of a COMPLETED row of u
RunnableAfter(u, sid) ==
    LET done(j) == subtasks[j].task_id = u
                   /\ (j = sid \/ subtasks[j].status = COMPLETED)
    IN  { i \in 1..Len(subtasks) :
            /\ subtasks[i].task_id = u
            /\ i # sid
            /\ subtasks[i].status = PENDING
            /\ \A k \in Range(subtasks[i].depends_on) :
                  \E j \in 1..Len(subtasks) :
                      done(j) /\ subtasks[j].sequence_order = k }

\* every row of task u is COMPLETED once row sid is
LastOf(u, sid) ==
    \A j \in 1..Len(subtasks) :
        subtasks[j].task_id = u => j = sid \/ subtasks[j].status = COMPLETED

\* a completion notice of a task is handled after another task has failed:
\* the rows it makes runnable are marked IN_PROGRESS and assigned in that step
OthersStillDispatched ==
    HandleNotice("none") /\ Head(tm_queue).type = TASK_SUBTASK_COMPLETE
        /\ failure_handled \ { Head(tm_queue).task_id } # {}
        /\ Head(tm_queue).subtask_id \in 1..Len(subtasks)
        /\ ~LastOf(Head(tm_queue).task_id, Head(tm_queue).subtask_id)
    => \A i \in RunnableAfter(Head(tm_queue).task_id, Head(tm_queue).subtask_id) :
          /\ subtasks'[i].status = IN_PROGRESS
          /\ \E k \in (Len(assigned) + 1)..Len(assigned') :
                assigned'[k].subtask_id = i

DigitChars == << "0", "1", "2", "3", "4", "5", "6", "7", "8", "9" >>

Pow10 == << 1, 10, 100, 1000, 10000, 100000 >>

\* '%0<width>d' % n
Pad(n, width) ==
    [i \in 1..width |-> DigitChars[((n \div Pow10[width - i + 1]) % 10) + 1]]

\* int(c) of one digit
DigitValue(c) == CHOOSE d \in 0..9 : DigitChars[d + 1] = c

RECURSIVE ParseInt(_)
\* int(s) of a string of digits
ParseInt(s) ==
    IF s = << >> THEN 0
    ELSE 10 * ParseInt(SubSeq(s, 1, Len(s) - 1)) + DigitValue(s[Len(s)])

\* mutant: isoformat(timespec="seconds")
isoformat_seconds(dt) ==
    Pad(dt.year, 4) \o << "-" >> \o Pad(dt.month, 2) \o << "-" >>
        \o Pad(dt.day, 2) \o << "T" >> \o Pad(dt.hour, 2) \o << ":" >>
        \o Pad(dt.minute, 2) \o << ":" >> \o Pad(dt.second, 2)

\* datetime.isoformat of a naive datetime: YYYY-MM-DDTHH:MM:SS, followed by
\* .ffffff when microsecond is not 0
isoformat(dt) ==
    Pad(dt.year, 4) \o << "-" >> \o Pad(dt.month, 2) \o << "-" >>
        \o Pad(dt.day, 2) \o << "T" >> \o Pad(dt.hour, 2) \o << ":" >>
        \o Pad(dt.minute, 2) \o << ":" >> \o Pad(dt.second, 2)
        \o (IF dt.microsecond # 0 THEN << "." >> \o Pad(dt.microsecond, 6)
            ELSE << >>)

\* datetime.fromisoformat on a string of either shape
fromisoformat(s) ==
    [year |-> ParseInt(SubSeq(s, 1, 4)),
     month |-> ParseInt(SubSeq(s, 6, 7)),
     day |-> ParseInt(SubSeq(s, 9, 10)),
     hour |-> ParseInt(SubSeq(s, 12, 13)),
     minute |-> ParseInt(SubSeq(s, 15, 16)),
     second |-> ParseInt(SubSeq(s, 18, 19)),
     microsecond |-> IF Len(s) > 19 THEN ParseInt(SubSeq(s, 21, 26)) ELSE 0]

\* the members of Priority
PriorityMembers == { "LOW", "NORMAL", "HIGH", "URGENT" }

\* Priority.<member>.value
PriorityValue(member) ==
    CASE member = "LOW" -> "low"
      [] member = "NORMAL" -> "normal"
      [] member = "HIGH" -> "high"
      [] member = "URGENT" -> "urgent"

\* Priority(value): the member of that value, ValueError without one
Priority(value) ==
    IF \E p \in PriorityMembers : PriorityValue(p) = value
    THEN CHOOSE p \in PriorityMembers : PriorityValue(p) = value
    ELSE "ValueError"

\* dict.get(key, default)
get(d, key, default) == IF key \in DOMAIN d THEN d[key] ELSE default

\* Message.to_dict
to_dict(m) ==
    [id |-> m.id,
     from |-> m.sender_id,
     to |-> m.recipient_id,
     type |-> m.message_type,
     payload |-> m.payload,
     timestamp |-> isoformat(m.timestamp),
     priority |-> PriorityValue(m.priority),
     mentions |-> m.mentions]

\* Message.from_dict
from_dict(d) ==
    [id |-> d.id,
     sender_id |-> d.from,
     recipient_id |-> d.to,
     message_type |-> d.type,
     payload |-> d.payload,
     timestamp |-> fromisoformat(d.timestamp),
     priority |-> Priority(get(d, "priority", "normal")),
     mentions |-> get(d, "mentions", << >>)]

\* the readings of datetime.now() the envelopes carry: the ends of every
\* field's range, with and without microseconds
Datetimes ==
    [year : { 1, 2026, 9999 }, month : { 1, 12 }, day : { 1, 31 },
     hour : { 0, 23 }, minute : { 0, 59 }, second : { 0, 59 },
     microsecond : { 0, 1, 999999 }]

\* payloads as send() is given them: a chat text, a task announcement
Payloads == { [text |-> TextBoth], [task_id |-> 1, title |-> TitlePlain] }

\* the envelopes send() builds
Messages ==
    [id : { << "m", "s", "g", "_", "0", "a", "1", "b" >> },
     sender_id : { SYSTEM, TM1 },
     recipient_id : { EW1, BROADCAST },
     message_type : { "chat" },
     payload : Payloads,
     timestamp : Datetimes,
     priority : PriorityMembers,
     mentions : { << >>, << EW1, QC1 >> }]

RoundTripInit ==
    /\ SchedInit /\ BusInit /\ AgentInit
    /\ envelope \in { << m >> : m \in Messages }
    /\ data = << >>
    /\ rebuilt = << >>
    /\ ConfInit
    /\ NotifyInit /\ PlanInit

\* m.to_dict()
ToDict ==
    /\ envelope # << >> /\ data = << >>
    /\ data' = << to_dict(envelope[1]) >>
    /\ UNCHANGED << envelope, rebuilt, schedVars, busVars, agentVars, confVars, notifyVars, planVars >>

\* Message.from_dict(...) on that dict
FromDict ==
    /\ data # << >> /\ rebuilt = << >>
    /\ rebuilt' = << from_dict(data[1]) >>
    /\ UNCHANGED << envelope, data, schedVars, busVars, agentVars, confVars, notifyVars, planVars >>

RoundTripNext == ToDict \/ FromDict

\* an envelope is converted to a dict and back
RoundTripSpec == RoundTripInit /\ [][RoundTripNext]_vars

\* C20: the envelope built by from_dict from m.to_dict() has m's id, sender,
\* recipient, type, payload, timestamp, priority and mention list.
C20_DictRoundTrip ==
    rebuilt # << >> =>
        /\ rebuilt[1].id = envelope[1].id
        /\ rebuilt[1].sender_id = envelope[1].sender_id
        /\ rebuilt[1].recipient_id = envelope[1].recipient_id
        /\ rebuilt[1].message_type = envelope[1].message_type
        /\ rebuilt[1].payload = envelope[1].payload
        /\ rebuilt[1].timestamp = envelope[1].timestamp
        /\ rebuilt[1].priority = envelope[1].priority
        /\ rebuilt[1].mentions = envelope[1].mentions

\* an urgent envelope with microseconds and two mentions went through both
C20_Witness ==
    /\ rebuilt # << >>
    /\ envelope[1].timestamp.microsecond = 1
    /\ envelope[1].priority = "URGENT"
    /\ envelope[1].mentions # << >>
    /\ Len(data[1].timestamp) = 26

\* ------------------------------------------- the bounded history (C21)

\* the largest history_size of a bus whose history overflows
MaxHistory == 2
\* how many envelopes are sent to that bus
MaxKept == 3
\* the largest `limit` get_history is asked for
MaxLimit == 3

\* messages[start:] for a start that is 0 or positive
SliceFrom(messages, first) == SubSeq(messages, first + 1, Len(messages))

\* messages[-limit:] for limit >= 0: -0 is 0, the slice from the start
LastSlice(messages, limit) ==
    SliceFrom(messages,
              IF limit = 0 \/ limit >= Len(messages) THEN 0
              ELSE Len(messages) - limit)

\* MessageBus.get_history(limit, message_type, sender_id); None and the empty
\* string are both falsy: "" and << >> stand for a filter that is not given
get_history(history, limit, message_type, sender_id) ==
    LET typed == IF message_type # ""
                 THEN SelectSeq(history, LAMBDA m : m.message_type = message_type)
                 ELSE history
        sent == IF sender_id # << >>
                THEN SelectSeq(typed, LAMBDA m : m.sender_id = sender_id)
                ELSE typed
    IN  LastSlice(sent, limit)

HistoryInit ==
    /\ SchedInit /\ BusInit /\ AgentInit /\ CodecInit /\ NotifyInit /\ PlanInit
    /\ history_size \in 0..MaxHistory

HistoryNext ==
    \/ \E sender_id \in Senders, message_type \in { "chat", "status" } :
          /\ msg_count < MaxKept
          /\ Send(sender_id, BROADCAST, message_type, << >>, "normal", clock)
    \/ Deliver

\* a bus built with a small history_size; envelopes are sent and queried
HistorySpec == HistoryInit /\ [][HistoryNext]_vars

\* the retained envelopes are the last history_size sent, in send order
HistoryKeepsLatest ==
    /\ Len(bus_history) <= history_size
    /\ Len(bus_history) = IF msg_count < history_size THEN msg_count
                          ELSE history_size
    /\ \A i \in 1..Len(bus_history) :
          bus_history[i].id = msg_count - Len(bus_history) + i

\* does envelope m pass the filters
Matches(m, message_type, sender_id) ==
    /\ message_type # "" => m.message_type = message_type
    /\ sender_id # << >> => m.sender_id = sender_id

\* get_history gives the last `limit` retained envelopes that match
QueryGivesLatest(limit, message_type, sender_id) ==
    LET result == get_history(bus_history, limit, message_type, sender_id)
        matching == SelectSeq(bus_history,
                              LAMBDA m : Matches(m, message_type, sender_id))
        n == IF limit < Len(matching) THEN limit ELSE Len(matching)
    IN  /\ Len(result) <= limit
        /\ result = SubSeq(matching, Len(matching) - n + 1, Len(matching))

TypeFilters == { "", "chat", "status" }
SenderFilters == { << >>, SYSTEM, EW1 }

\* C21: the history holds the last history_size envelopes sent, in send order,
\* and get_history(limit, type, sender) gives at most `limit` envelopes, the
\* most recent retained ones that match, newest last, for every limit >= 0.
C21_HistoryAndQuery ==
    /\ HistoryKeepsLatest
    /\ \A limit \in 0..MaxLimit, message_type \in TypeFilters,
          sender_id \in SenderFilters :
          QueryGivesLatest(limit, message_type, sender_id)

\* the same for every limit >= 1
C21_PositiveLimits ==
    /\ HistoryKeepsLatest
    /\ \A limit \in 1..MaxLimit, message_type \in TypeFilters,
          sender_id \in SenderFilters :
          QueryGivesLatest(limit, message_type, sender_id)

\* ------------------------------------------- get_system_health (C22)

\* BaseAgent.health_check, the keys get_system_health reads
health_check(id) ==
    [agent_id |-> id, status |-> agent_status[id], running |-> agent_running[id]]

\* the entry appended for an agent whose health_check raised
health_error(id) == [agent_id |-> id, error |-> "error"]

\* the loop of get_system_health over self._agents.values()
agent_health_of(ids, raising) ==
    [i \in 1..Len(ids) |->
        IF ids[i] \in raising THEN health_error(ids[i]) ELSE health_check(ids[i])]

RECURSIVE CountTrue(_, _, _)
\* sum(1 for h in agent_health if h.get("running", default))
CountTrue(agent_health, default, i) ==
    IF i > Len(agent_health) THEN 0
    ELSE (IF get(agent_health[i], "running", default) THEN 1 ELSE 0)
         + CountTrue(agent_health, default, i + 1)

\* the report built from the collected entries
SystemHealth(agent_health, healthy_count) ==
    [total_agents |-> Len(agent_health),
     healthy_agents |-> healthy_count,
     unhealthy_agents |-> Len(agent_health) - healthy_count,
     system_status |-> IF healthy_count = Len(agent_health) THEN "healthy"
                       ELSE "degraded",
     agents |-> agent_health]

\* mutant: an entry without a "running" key counts as running
get_system_health_default_true(raising) ==
    LET agent_health == agent_health_of(registry_agents, raising)
    IN  SystemHealth(agent_health, CountTrue(agent_health, TRUE, 1))

\* AgentRegistry.get_system_health; `raising` are the agents whose
\* health_check raises
get_system_health(raising) ==
    LET agent_health == agent_health_of(registry_agents, raising)
    IN  SystemHealth(agent_health, CountTrue(agent_health, FALSE, 1))

\* the registered agents that report running
ReportRunning(raising) ==
    { id \in Range(registry_agents) : id \notin raising /\ agent_running[id] }

\* C22: get_system_health reports total_agents = the number of registered
\* agents, healthy_agents = the number whose health_check returns running =
\* true (one that raises is unhealthy), unhealthy_agents = total - healthy, and
\* system_status "healthy" exactly when every registered agent reports running,
\* "degraded" otherwise.
C22_SystemHealth ==
    \A raising \in SUBSET Range(registry_agents) :
        LET r == get_system_health(raising)
        IN  /\ r.total_agents = Cardinality(Range(registry_agents))
            /\ r.healthy_agents = Cardinality(ReportRunning(raising))
            /\ r.unhealthy_agents = r.total_agents - r.healthy_agents
            /\ r.system_status = "healthy"
                  <=> ReportRunning(raising) = Range(registry_agents)
            /\ r.system_status # "healthy" => r.system_status = "degraded"

\* two agents are registered, both running; the report is healthy, and
\* degraded when the health_check of one of them raises
C22_Witness ==
    /\ Len(registry_agents) = 2
    /\ \A id \in Range(registry_agents) : agent_running[id]
    /\ get_system_health({}).system_status = "healthy"
    /\ get_system_health({ registry_agents[1] }).healthy_agents = 1
    /\ get_system_health({ registry_agents[1] }).system_status = "degraded"

\* ------------------------------------------- the run loop (C23..C26)

LoopIds == 1..Len(run_loops)

\* the loop task is past the backoff and goes round again
Iterating(t) == Runs(t) /\ run_loops[t].pc \in { "wait", "run" }

\* C23: after the run loop has put a running agent in ERROR, the status is IDLE
\* again once the backoff pause is over (unless the agent is stopped first);
\* the agent is not in ERROR while its loop goes round.
C23_ErrorEndsWithBackoff ==
    /\ [][\A t \in LoopIds :
            run_loops[t].pc = "backoff" /\ run_loops'[t].pc = "wait"
                => agent_status'[run_loops[t].agent] = IDLE]_vars
    /\ [](\A t \in LoopIds :
            Iterating(t) /\ agent_running[run_loops[t].agent]
                => agent_status[run_loops[t].agent] # ERROR)

\* one step of the loop task t, whatever it is
LoopStep(t) ==
    \/ LoopCancelled(t) \/ LoopStart(t) \/ LoopGet(t) \/ LoopTimeout(t)
    \/ HandlerReturns(t) \/ HandlerRaises(t) \/ LoopCatches(t)
    \/ HandlerRetry(t)
    \/ StepReturns(t) \/ StepRaises(t) \/ BackoffOver(t)

\* The event loop runs every task that can run: timeouts and pauses elapse,
\* and the handler and the step function end (by returning or by raising).
\* Nothing is assumed about the callers of start() and stop().
AgentLiveSpec ==
    Init /\ [][AgentNext]_vars /\ WF_vars(\E t \in LoopIds : LoopStep(t))

\* the loop task t catches an exception of the handler or the step function
Faulted(t) ==
    /\ run_loops[t].pc \in { "raised", "run" }
    /\ run_loops'[t].pc = "backoff"

BeingStopped(id) ==
    \/ ~ agent_running[id]
    \/ \E t \in LoopIds :
          run_loops[t].agent = id /\ Alive(t) /\ run_loops[t].must_cancel
    \/ \E s \in Slots :
          s[2] = id /\ stop_calls[s].pc \notin { "none", "returned", "raised" }

\* C25: unless the agent is being stopped, its status is WORKING while the
\* handler is invoked and IDLE as soon as the invocation ends, by returning
\* or by raising.
C25_WorkingWhileHandling ==
    /\ [](\A t \in LoopIds :
            run_loops[t].pc = "handle" /\ ~ BeingStopped(run_loops[t].agent)
                => agent_status[run_loops[t].agent] = WORKING)
    /\ [][\A t \in LoopIds :
            /\ run_loops[t].pc = "handle"
            /\ run_loops'[t].pc # "handle"
            /\ ~ BeingStopped(run_loops[t].agent)
            => agent_status'[run_loops[t].agent] = IDLE]_vars

\* ---- stop() and a second start() of one agent while envelopes wait
MaxRestarts == 1
MaxDelivered == 2

\* receive_message was called MaxDelivered times on the agent before its
\* first start(): the envelopes wait in its queue
RestartInit ==
    /\ SchedInit /\ AgentInit /\ CodecInit /\ ConfInit /\ NotifyInit /\ PlanInit
    /\ bus_agents = {}
    /\ bus_names = << >>
    /\ bus_queue = << >>
    /\ bus_history = << >>
    /\ bus_subscribers = << >>
    /\ msg_count = MaxDelivered
    /\ clock = 0
    /\ inbox = [a \in AgentPool |->
                  IF a = Subject THEN [i \in 1..MaxDelivered |-> i] ELSE << >>]

\* application code starts an agent again after it has called stop() on it,
\* whether or not that stop() has returned
UserRestart(id) ==
    /\ used.starts >= MaxStarts
    /\ used.starts < MaxStarts + MaxRestarts
    /\ used.stops >= 1
    /\ health_pc = "sleep"
    /\ shutdown_pc = "idle"
    /\ used' = [used EXCEPT !.starts = @ + 1]
    /\ start(id)
    /\ UNCHANGED << agent_metrics, invocations, restart_enabled, stop_calls,
                    health_pc, agents_to_restart, health, supervisor_log,
                    shutdown_pc, shutdown_tasks, inbox, msg_count, restVars >>

RestartNext ==
    \/ UserStart(Subject)
    \/ UserRestart(Subject)
    \/ UserStop(Subject)
    \/ StopEnter(UserSlot)
    \/ StopClosed(UserSlot)
    \/ StopCloseRaises(UserSlot)
    \/ StopJoined(UserSlot)
    \/ \E t \in 1..Len(run_loops) : LoopCancelled(t)
    \/ \E t \in 1..Len(run_loops) : LoopStart(t)
    \/ \E t \in 1..Len(run_loops) : LoopGet(t)
    \/ \E t \in 1..Len(run_loops) : LoopTimeout(t)
    \/ \E t \in 1..Len(run_loops) : HandlerReturns(t)
    \/ \E t \in 1..Len(run_loops) : HandlerRaises(t)
    \/ \E t \in 1..Len(run_loops) : LoopCatches(t)
    \/ \E t \in 1..Len(run_loops) : HandlerRetry(t)
    \/ \E t \in 1..Len(run_loops) : StepReturns(t)
    \/ \E t \in 1..Len(run_loops) : StepRaises(t)
    \/ \E t \in 1..Len(run_loops) : BackoffOver(t)

RestartSpec == RestartInit /\ [][RestartNext]_vars

\* ---- one envelope and one step per iteration
\* the loop task t is inside the handler or inside the step function
Busy(t) == Alive(t) /\ run_loops[t].pc \in { "handle", "run" }

\* the handler was invoked on envelopes in the order receive_message queued
\* them (the attempts on one envelope follow each other)
InDeliveryOrder(id) ==
    \A i, j \in 1..Len(invocations[id]) :
        i < j => invocations[id][i] <= invocations[id][j]

\* the loop task t, which is not cancelled and whose agent stays running,
\* has finished waiting for an envelope or handling one
HandlingOver(t) ==
    /\ Runs(t)
    /\ agent_running'[run_loops[t].agent]
    /\ run_loops[t].pc \in { "wait", "handle", "raised" }
    /\ run_loops'[t].pc \notin { "wait", "handle", "retry", "raised" }

\* C26: envelopes are handled one at a time in delivery order, an iteration
\* takes at most one envelope and invokes the step function once whether or
\* not an envelope arrived, and handler and step invocations of one agent
\* never overlap.
C26_OneEnvelopeOneStep ==
    /\ [](\A id \in Agents :
            /\ InDeliveryOrder(id)
            /\ Cardinality({ t \in LoopIds : run_loops[t].agent = id /\ Busy(t) }) <= 1)
    /\ [][\A t \in LoopIds :
            /\ Len(inbox'[run_loops[t].agent]) >= Len(inbox[run_loops[t].agent]) - 1
            /\ run_loops[t].pc # "wait" /\ Alive(t)
                    => Len(inbox'[run_loops[t].agent]) >= Len(inbox[run_loops[t].agent])
            /\ HandlingOver(t) => run_loops'[t].pc = "run"
            /\ run_loops[t].pc = "run"
                    => run_loops'[t].pc \in { "run", "wait", "backoff", "done" }]_vars

\* what holds of C26 when the agent is started once: order and no overlap,
\* with several envelopes waiting
C26_OrderedWithoutRestart ==
    used.starts <= 1 =>
        \A id \in Agents :
            /\ InDeliveryOrder(id)
            /\ Cardinality({ t \in LoopIds : run_loops[t].agent = id /\ Busy(t) }) <= 1

\* both envelopes have been handled by a loop that was started once
C26_OrderedWitness ==
    /\ used.starts = 1
    /\ Len(invocations[Subject]) >= 3
    /\ invocations[Subject][Len(invocations[Subject])] = 2

\* ---- start() and the number of live run loops
AliveLoops(id) == { t \in LoopIds : run_loops[t].agent = id /\ Alive(t) }

AtMostOneLoop == \A id \in Agents : Cardinality(AliveLoops(id)) <= 1

\* application code calls start() on the subject
StartCalled == used'.starts = used.starts + 1

\* C27: start() on an agent that is not running sets status IDLE, marks it
\* running, registers it and launches one run loop; start() on a running agent
\* changes nothing; so at most one run loop per agent is alive at any time.
C27_OneLoopPerAgent ==
    /\ [][StartCalled /\ ~ agent_running[Subject] =>
            /\ agent_status'[Subject] = IDLE
            /\ agent_running'[Subject]
            /\ Subject \in Range(registry_agents')
            /\ Len(run_loops') = Len(run_loops) + 1
            /\ run_loops'[Len(run_loops')].agent = Subject
            /\ run_loops'[Len(run_loops')].pc # "done"]_vars
    /\ [][StartCalled /\ agent_running[Subject] =>
            UNCHANGED << agent_running, agent_status, agent_task, run_loops,
                         registry_agents, registry_names, registry_types >>]_vars
    /\ []AtMostOneLoop

\* ---- the registry's three indexes under register and unregister calls
\* the agents the calls are made with: two share a name and a type
Registrants == AgentPool \cup { TM1 }

indexFrame ==
    << agent_running, agent_status, agent_task, agent_metrics, http_client,
       run_loops, invocations, restart_enabled, stop_calls, health_pc,
       agents_to_restart, health, supervisor_log, shutdown_pc, shutdown_tasks,
       used, inbox, msg_count, restVars >>

\* await registry.register(agent): the body runs under the lock without an await
RegistryRegister(id) == register(id) /\ UNCHANGED indexFrame

\* await registry.unregister(agent_id)
RegistryUnregister(id) == unregister(id) /\ UNCHANGED indexFrame

IndexNext ==
    \/ \E id \in Registrants : RegistryRegister(id)
    \/ \E id \in Registrants : RegistryUnregister(id)

IndexSpec == Init /\ [][IndexNext]_vars

\* C28: after any register and unregister calls every id in the name index or
\* in a type list is a key of the id index, a registered id stands exactly
\* once in the list of its type, and an id that is not registered stands in
\* none of the three indexes.
C28_IndexesAgree ==
    /\ \A k \in DOMAIN registry_names : registry_names[k] \in Range(registry_agents)
    /\ \A k \in DOMAIN registry_types : Range(registry_types[k]) \subseteq Range(registry_agents)
    /\ \A id \in Range(registry_agents) :
          /\ Occurrences(registry_agents, id) = 1
          /\ agent_type(id) \in DOMAIN registry_types
          /\ Occurrences(registry_types[agent_type(id)], id) = 1
          /\ \A k \in DOMAIN registry_types \ { agent_type(id) } :
                id \notin Range(registry_types[k])
    /\ \A id \in Registrants \ Range(registry_agents) :
          /\ \A k \in DOMAIN registry_names : registry_names[k] # id
          /\ \A k \in DOMAIN registry_types : id \notin Range(registry_types[k])

\* two agents of one type were registered and the later one unregistered
\* again, while a third agent of another type stays registered
C28_Witness ==
    /\ QC1 \in Range(registry_agents)
    /\ QC2 \notin Range(registry_agents)
    /\ EW1 \in Range(registry_agents)
    /\ registry_types[agent_type(QC1)] = << QC1 >>
    /\ lower(agent_name(QC2)) \notin DOMAIN registry_names

\* ---- the bus directory and its alias map
\* the identifiers an agent can be addressed by besides its id
Aliases(id) ==
    { agent_name(id), agent_type(id), lower(agent_name(id)), lower(agent_type(id)) }

\* C29: after any register_agent and unregister_agent calls every alias in
\* the alias map leads to one id, which is registered; an agent that was
\* unregistered is found neither by its id nor by any alias.
C29_AliasesResolve ==
    /\ \A k \in DOMAIN bus_names : bus_names[k] \in bus_agents
    /\ \A id \in AgentPool \ bus_agents :
          /\ get_agent(bus_agents, bus_names, id) = << >>
          /\ \A alias \in Aliases(id) :
                get_agent(bus_agents, bus_names, alias) # << id >>

\* two agents share name and type; the one registered later was
\* unregistered, the other and an agent of another type are registered
C29_Witness ==
    /\ bus_agents = { QC1, EW1 }
    /\ lower(agent_type(QC2)) \notin DOMAIN bus_names
    /\ get_agent(bus_agents, bus_names, agent_type(EW1)) = << EW1 >>

\* ---- envelopes addressed to a worker type
MaxAssigned == 2

\* the worker types the scheduler addresses subtasks to
AddressedTypes == { agent_type(id) : id \in AgentPool }

\* the registered agents of a type
OfType(type) == { id \in bus_agents : agent_type(id) = type }

\* agents register and unregister; envelopes addressed to a type are sent,
\* as _dispatch_ready_subtasks sends them, and delivered
AliasNext ==
    \/ \E id \in AgentPool : Register(id)
    \/ \E id \in AgentPool : Unregister(id)
    \/ \E type \in AddressedTypes :
          /\ msg_count < MaxAssigned
          /\ Send(TM1, type, TASK_ASSIGNED, << >>, "high", clock)
    \/ Deliver

AliasSpec == Init /\ [][AliasNext]_vars

\* the envelope the next delivery takes from the queue
NextDelivered == heappop(bus_queue).item.message

\* _deliver_message runs on the envelope at the head of the queue
Delivering == bus_queue # << >> /\ Len(bus_queue') < Len(bus_queue)

\* C30: an envelope addressed to a worker type is delivered to a registered
\* agent of that type whenever at least one agent of that type is registered
\* when it is delivered.
C30_TypeAliasDelivers ==
    [][Delivering /\ NextDelivered.recipient_id \in AddressedTypes
                  /\ OfType(NextDelivered.recipient_id) # {}
          => \E id \in OfType(NextDelivered.recipient_id) :
                /\ Len(inbox'[id]) = Len(inbox[id]) + 1
                /\ inbox'[id][Len(inbox'[id])] = NextDelivered.id]_vars

\* what holds of C30: the envelope reaches a registered agent of the type
\* whenever the type's alias is in the alias map
C30_DeliversWhenAliasKept ==
    [][Delivering /\ NextDelivered.recipient_id \in AddressedTypes
                  /\ lower(NextDelivered.recipient_id) \in DOMAIN bus_names
          => \E id \in OfType(NextDelivered.recipient_id) :
                /\ Len(inbox'[id]) = Len(inbox[id]) + 1
                /\ inbox'[id][Len(inbox'[id])] = NextDelivered.id]_vars

\* ---- subscribers and observers
MaxNotified == 2

\* the callables handed to subscribe and to add_websocket_handler
Subscribers == { "s1", "s2" }
Observers == { "o1", "o2" }
Tags == { "chat", "*" }

\* MessageBus.subscribe
subscribe(subs, message_type, handler) ==
    Put(subs, message_type,
        Append(IF message_type \in DOMAIN subs THEN subs[message_type] ELSE << >>,
               handler))

\* get_stats()["subscribers"]
subscriber_counts(subs) == [k \in DOMAIN subs |-> Len(subs[k])]

\* a bus with two agents registered; which agents' receive_message and which
\* handlers raise is fixed for the run
SubscribeInit ==
    /\ SchedInit /\ AgentInit /\ CodecInit /\ ConfInit /\ PlanInit
    /\ bus_agents = register_agents(register_agents({}, QC1), EW1)
    /\ bus_names = register_names(register_names(<< >>, QC1), EW1)
    /\ bus_queue = << >>
    /\ bus_history = << >>
    /\ bus_subscribers = << >>
    /\ msg_count = 0
    /\ clock = 0
    /\ inbox = [a \in AgentPool |-> << >>]
    /\ websocket_handlers = << >>
    /\ handler_calls = << >>
    /\ raising_agents \in SUBSET { QC1 }
    /\ raising_handlers \in { {}, { "s1", "o1" } }

notifyFrame == << schedVars, agentVars, codecVars, confVars, planVars >>

Subscribe(message_type, handler) ==
    /\ bus_subscribers' = subscribe(bus_subscribers, message_type, handler)
    /\ UNCHANGED << bus_agents, bus_names, bus_queue, bus_history, msg_count,
                    clock, inbox, notifyVars, notifyFrame >>

\* MessageBus.add_websocket_handler
AddObserver(handler) ==
    /\ websocket_handlers' = Append(websocket_handlers, handler)
    /\ UNCHANGED << busVars, handler_calls, raising_agents, raising_handlers,
                    notifyFrame >>

\* the handlers that subscribed to a tag
Subscribed(subs) == UNION { Range(subs[k]) : k \in DOMAIN subs }

SubscribeNext ==
    \/ \E message_type \in Tags, handler \in Subscribers :
          /\ handler \notin Subscribed(bus_subscribers)
          /\ Subscribe(message_type, handler)
    \/ \E handler \in Observers :
          /\ handler \notin Range(websocket_handlers)
          /\ AddObserver(handler)
    \/ \E message_type \in { "chat", "status" } :
          /\ msg_count < MaxNotified
          /\ Send(SYSTEM, BROADCAST, message_type, << >>, "normal", clock)
    \/ Deliver

SubscribeSpec == SubscribeInit /\ [][SubscribeNext]_vars

\* the calls the delivery under way makes
NewCalls == SubSeq(handler_calls', Len(handler_calls) + 1, Len(handler_calls'))

\* how many of the calls were made to the handler with the envelope
CallsOf(calls, handler, message_id) ==
    Cardinality({ i \in 1..Len(calls) :
                    calls[i].handler = handler /\ calls[i].message = message_id })

\* the subscribers of a type tag and of the wildcard
HandlersFor(subs, message_type) ==
    UNION { Range(subs[k]) : k \in DOMAIN subs \cap { message_type, "*" } }

\* C31: when an envelope is delivered, a receive_message, a subscriber or an
\* observer that raises keeps no other recipient, subscriber or observer from
\* getting it, for this envelope and for every later one.
C31_FaultsIsolated ==
    [][Delivering =>
          /\ \A a \in bus_agents \ (raising_agents \cup { NextDelivered.sender_id }) :
                NextDelivered.recipient_id = BROADCAST
                    => inbox'[a] = Append(inbox[a], NextDelivered.id)
          /\ \A h \in HandlersFor(bus_subscribers, NextDelivered.message_type)
                       \cup Range(websocket_handlers) :
                CallsOf(NewCalls, h, NextDelivered.id) >= 1
          /\ \A i \in 1..Len(NewCalls) :
                NewCalls[i].outcome = "raised" <=> NewCalls[i].handler \in raising_handlers]_vars

\* a receive_message raised, a subscriber raised before another one returned,
\* an observer raised before another one returned, and a later envelope was
\* delivered to them all again
C31_Witness ==
    /\ raising_agents = { QC1 }
    /\ inbox[QC1] = << >> /\ inbox[EW1] = << 1, 2 >>
    /\ \E i, j, k, l \in 1..Len(handler_calls) :
          /\ i < j /\ j < k /\ k < l
          /\ handler_calls[i] = Call("s1", 1, { "s1" })
          /\ handler_calls[j].handler \in Subscribers /\ handler_calls[j].outcome = "returned"
          /\ handler_calls[k] = Call("o1", 1, { "o1" })
          /\ handler_calls[l] = Call("o2", 1, {})
    /\ \E i \in 1..Len(handler_calls) : handler_calls[i] = Call("o2", 2, {})

\* C32: for every delivered envelope each handler subscribed to its type and
\* each handler subscribed to "*" is called exactly once, and the delivery
\* leaves the subscriber lists, and the counts get_stats reports, unchanged.
C32_SubscribersOnceAndKept ==
    [][Delivering =>
          /\ \A h \in HandlersFor(bus_subscribers, NextDelivered.message_type) :
                CallsOf(NewCalls, h, NextDelivered.id) = 1
          /\ bus_subscribers' = bus_subscribers
          /\ subscriber_counts(bus_subscribers') = subscriber_counts(bus_subscribers)]_vars

\* what holds of C32: while nobody subscribed to "*", or nobody to the
\* envelope's type, every subscriber is called once and the lists stay
C32_WithoutWildcard ==
    [][Delivering /\ ~ ({ NextDelivered.message_type, "*" } \subseteq DOMAIN bus_subscribers)
          => /\ \A h \in HandlersFor(bus_subscribers, NextDelivered.message_type) :
                   CallsOf(NewCalls, h, NextDelivered.id) = 1
             /\ bus_subscribers' = bus_subscribers]_vars

\* ---- the delivery loop empties the queue
MaxQueued == 3

\* the ids of the envelopes in the priority queue
QueueIds == { bus_queue[i].message.id : i \in 1..Len(bus_queue) }

\* one agent registers at some time; envelopes of two priorities are sent to
\* it and to an agent that never registers; the delivery loop runs
PopNext ==
    \/ Register(EW1)
    \/ \E recipient_id \in { EW1, QC1 }, priority \in { "high", "low" } :
          /\ msg_count < MaxQueued
          /\ Send(SYSTEM, recipient_id, "chat", << >>, priority, clock)
    \/ Deliver

PopSpec == Init /\ [][PopNext]_vars

\* _process_loop sleeps only while the queue is empty, and receive_message
\* and the handlers return: a delivery that can be made is made
PopLiveSpec == Init /\ [][PopNext]_vars /\ WF_vars(Deliver)

\* C33: every envelope in the priority queue is popped sooner or later, once;
\* a popped envelope never returns to the queue and reaches no inbox twice,
\* whether or not its recipient is registered.
C33_QueueDrains ==
    /\ \A id \in 1..MaxQueued : (id \in QueueIds) ~> (id \notin QueueIds)
    /\ [](\A id \in 1..msg_count :
            /\ Cardinality({ i \in 1..Len(bus_queue) : bus_queue[i].message.id = id }) <= 1
            /\ \A a \in AgentPool : Occurrences(inbox[a], id) <= 1)
    /\ [][\A id \in 1..msg_count : id \notin QueueIds => id \notin QueueIds']_vars
    /\ [][Delivering => QueueIds' = QueueIds \ { NextDelivered.id }]_vars

\* three envelopes were popped: one reached its recipient, one was sent
\* before the recipient registered and one to an agent that never registered;
\* the envelope sent last was not delivered last
C33_Witness ==
    /\ msg_count = MaxQueued
    /\ bus_queue = << >>
    /\ EW1 \in bus_agents
    /\ \E i \in 1..Len(bus_history) : bus_history[i].recipient_id = QC1
    /\ Len(inbox[EW1]) = 2
    /\ inbox[EW1][1] > inbox[EW1][2]

\* ============================================= the data an assignment carries
\* The subtask rows of one task with their input and output mappings, the
\* first dispatch after planning and the dispatches that follow completions.

\* the largest value a mapping holds
MaxValue == 2

MergeKeys == { "a", "b" }

\* the JSON objects a row's input_data and output_data can hold; None reads as
\* the empty mapping (`st.input_data or {}`, `st.output_data or {}`)
Mappings == UNION { [D -> 1..MaxValue] : D \in SUBSET MergeKeys }

\* a row of the subtasks table with its data columns
DataRow(order, deps, input_data) ==
    [sequence_order |-> order, depends_on |-> deps, status |-> PENDING,
     input_data |-> input_data, output_data |-> << >>]

\* the dependency lists of the third planned subtask
JoinDeps == { <<0, 1>>, <<1, 0>>, <<0>>, <<0, 1, 0>> }

\* three planned subtasks in order_by(sequence_order): two producers, the
\* second alone or behind the first, and a consumer with input of its own
MergeInit ==
    /\ SchedInit /\ BusInit /\ AgentInit /\ CodecInit /\ ConfInit /\ NotifyInit
    /\ merge_rows \in
          { << DataRow(0, << >>, << >>), DataRow(1, d1, << >>),
               DataRow(2, d2, own) >> :
                d1 \in { << >>, <<0>> }, d2 \in JoinDeps, own \in Mappings }
    /\ merge_sent = << >>
    /\ llm_available = TRUE
    /\ plan_title = << >>
    /\ plan_description = << >>
    /\ plans_made = << >>

\* mutant: a key the mapping already holds keeps its value
update_keep(d, e) ==
    [k \in DOMAIN d \cup DOMAIN e |-> IF k \in DOMAIN d THEN d[k] ELSE e[k]]

\* dict.update
update(d, e) ==
    [k \in DOMAIN d \cup DOMAIN e |-> IF k \in DOMAIN e THEN e[k] ELSE d[k]]

\* the rows of _dispatch_ready_subtasks's first loop: the COMPLETED ones
CompletedRows(rows) == { i \in DOMAIN rows : rows[i].status = COMPLETED }

\* completed_output of _dispatch_ready_subtasks: sequence order -> output of
\* the last COMPLETED row that carries the order
completed_output(rows) ==
    [o \in { rows[i].sequence_order : i \in CompletedRows(rows) } |->
        LET last == CHOOSE i \in CompletedRows(rows) :
                       /\ rows[i].sequence_order = o
                       /\ \A j \in CompletedRows(rows) :
                             rows[j].sequence_order = o => j <= i
        IN  rows[last].output_data]

\* completed_output.get(dep_order, {})
dep_output(outputs, dep_order) ==
    IF dep_order \in DOMAIN outputs THEN outputs[dep_order] ELSE << >>

RECURSIVE merge_deps(_, _, _)
\* `for dep_order in deps: ... input_data.update(dep_output)`
merge_deps(input_data, deps, outputs) ==
    IF deps = << >> THEN input_data
    ELSE merge_deps(update(input_data, dep_output(outputs, Head(deps))),
                    Tail(deps), outputs)

\* the payload of the TASK_ASSIGNED envelope, as far as the data goes
Assignment(subtask_id, input_data) ==
    [subtask_id |-> subtask_id, input_data |-> input_data]

RECURSIVE DispatchData(_, _, _, _, _)
\* _dispatch_ready_subtasks over the rows read at its start (`seen`): each
\* ready row is marked IN_PROGRESS and its envelope carries the merged input
DispatchData(i, seen, rows, out, outputs) ==
    IF i > Len(seen) THEN [rows |-> rows, sent |-> out]
    ELSE IF IsReady(seen[i], DOMAIN outputs)
         THEN DispatchData(i + 1, seen,
                  [rows EXCEPT ![i].status = IN_PROGRESS],
                  Append(out, Assignment(i,
                      merge_deps(seen[i].input_data, seen[i].depends_on,
                                 outputs))),
                  outputs)
         ELSE DispatchData(i + 1, seen, rows, out, outputs)

dispatch_data(rows) ==
    DispatchData(1, rows, rows, << >>, completed_output(rows))

mergeFrame == << schedVars, busVars, agentVars, codecVars, confVars, notifyVars,
                 llm_available, plan_title, plan_description, plans_made >>

\* _plan_and_execute_task once the rows are created: the first dispatch
MergePlanned ==
    /\ merge_sent = << >>
    /\ \A i \in DOMAIN merge_rows : merge_rows[i].status = PENDING
    /\ merge_rows' = dispatch_data(merge_rows).rows
    /\ merge_sent' = merge_sent \o dispatch_data(merge_rows).sent
    /\ UNCHANGED mergeFrame

\* _handle_subtask_complete on the notice of the worker that was assigned
\* subtask sid: the row takes COMPLETED and the output, and unless every row is
\* COMPLETED the ready rows are dispatched
MergeComplete(sid, output_data) ==
    /\ merge_rows[sid].status = IN_PROGRESS
    /\ LET rows == [merge_rows EXCEPT ![sid].status = COMPLETED,
                                      ![sid].output_data = output_data]
           d == dispatch_data(rows)
       IN  IF AllCompleted(Cardinality(CompletedRows(rows)), Len(rows))
           THEN /\ merge_rows' = rows
                /\ merge_sent' = merge_sent
           ELSE /\ merge_rows' = d.rows
                /\ merge_sent' = merge_sent \o d.sent
    /\ UNCHANGED mergeFrame

MergeNext ==
    \/ MergePlanned
    \/ \E sid \in DOMAIN merge_rows, output_data \in Mappings : MergeComplete(sid, output_data)

MergeSpec == MergeInit /\ [][MergeNext]_vars

\* the row a dependency index names
Producer(rows, order) ==
    rows[CHOOSE i \in DOMAIN rows : rows[i].sequence_order = order]

\* the positions of the dependency list whose dependency's output holds key k
Supplying(rows, deps, k) ==
    { i \in 1..Len(deps) : k \in DOMAIN Producer(rows, deps[i]).output_data }

Last(S) == CHOOSE i \in S : \A j \in S : j <= i

\* C34: the input an assignment envelope carries is the subtask's own input
\* overridden by the outputs of its dependencies in the order of the
\* dependency list: every key holds the value of the last dependency in the
\* list whose output has the key, a key no dependency supplies holds the
\* subtask's own value, and there are no other keys.
C34_MergedInput ==
    \A n \in 1..Len(merge_sent) :
        LET e == merge_sent[n]
            st == merge_rows[e.subtask_id]
        IN  \A k \in MergeKeys :
               LET from == Supplying(merge_rows, st.depends_on, k)
               IN  IF from # {}
                   THEN /\ k \in DOMAIN e.input_data
                        /\ e.input_data[k] =
                              Producer(merge_rows,
                                  st.depends_on[Last(from)]).output_data[k]
                   ELSE IF k \in DOMAIN st.input_data
                        THEN /\ k \in DOMAIN e.input_data
                             /\ e.input_data[k] = st.input_data[k]
                        ELSE k \notin DOMAIN e.input_data

\* the consumer lists its dependencies as [1, 0], both outputs and its own
\* input hold key "a" with three different values, and its envelope carries
\* the value of dependency 0
C34_Witness ==
    /\ Len(merge_sent) = 3
    /\ merge_rows[3].depends_on = <<1, 0>>
    /\ "a" \in DOMAIN merge_rows[1].output_data
    /\ "a" \in DOMAIN merge_rows[2].output_data
    /\ "a" \in DOMAIN merge_rows[3].input_data
    /\ merge_rows[1].output_data["a"] # merge_rows[2].output_data["a"]
    /\ merge_rows[3].input_data["a"] # merge_rows[1].output_data["a"]
    /\ merge_sent[3].subtask_id = 3
    /\ merge_sent[3].input_data["a"] = merge_rows[1].output_data["a"]

\* ------------------------------------------------ marked before it is sent
\* the subtasks for which a TASK_ASSIGNED envelope went to the bus
Enqueued == { assigned[i].subtask_id : i \in 1..Len(assigned) }

\* C35: a subtask is IN_PROGRESS only if an assignment envelope for it has
\* been enqueued on the bus; a send that fails leaves the subtask's status as
\* it was.
C35_InProgressWasSent ==
    \A sid \in 1..Len(subtasks) :
        subtasks[sid].status = IN_PROGRESS => sid \in Enqueued

\* as long as no call of the scheduler has raised, the rows that are
\* IN_PROGRESS (as well as the COMPLETED ones) have had their envelope
C35_SentWhileNothingRaised ==
    faults = 0 =>
        \A sid \in 1..Len(subtasks) :
            subtasks[sid].status \in { IN_PROGRESS, COMPLETED } => sid \in Enqueued

\* ------------------------------------------------- what the sweep can find
\* update_subtask is called with IN_PROGRESS (dispatch) and with COMPLETED
\* (completion notice) only: no row of the subtasks table is ever FAILED, so
\* the test of _check_task_progress never passes.
NoSubtaskFailed ==
    \A sid \in 1..Len(subtasks) : subtasks[sid].status # FAILED

\* no task that is being tracked meets the sweep's condition
SweepFindsNothing == \A t \in active_tasks : ~SweepFails(subtasks, t)

\* ------------------------------------------------ every planned task ends
\* one turn of the scheduler's run loop: the wait for an envelope times out or
\* hands over a notice, or the planning step that run() awaits comes back
SchedulerStep ==
    \/ RecvTimeout
    \/ \E fault \in {"none", "db", "send"} : HandleNotice(fault)
    \/ \E plan \in Plans, fault \in {"none"} \cup PlanFaults :
          PlanFinish(plan, fault)

\* a worker answers an assignment it holds
WorkerStep ==
    \E sid \in 1..Len(subtasks) : WorkerComplete(sid) \/ WorkerFail(sid)

\* The scheduler with its run loop kept running and workers that answer every
\* assignment they were given: the event loop runs a task that can run, and
\* every await of a handler returns or raises.
LiveSpec ==
    Init /\ [][Next]_vars /\ WF_vars(SchedulerStep) /\ WF_vars(WorkerStep)

Terminal(t) == tasks[t].status \in { COMPLETED, FAILED }

\* every task the scheduler has started to plan eventually is COMPLETED or
\* FAILED, whatever plan the planning capability returns
PlannedTasksEnd ==
    \A t \in 1..MaxTasks :
        (t \in 1..Len(tasks) /\ tasks[t].status = PLANNING) ~>
            (t \in 1..Len(tasks) /\ Terminal(t))

\* the plan as the rows show it: at least one subtask, every subtask for a
\* worker type that exists, every dependency index carried by a subtask
Answerable(t) ==
    LET ids == get_subtasks(subtasks, t)
        orders == { subtasks[ids[i]].sequence_order : i \in 1..Len(ids) }
    IN  /\ ids # << >>
        /\ \A i \in 1..Len(ids) :
              /\ subtasks[ids[i]].assigned_agent \in WorkerTypes
              /\ Range(subtasks[ids[i]].depends_on) \subseteq orders

\* nothing is left to do: the run loop waits with an empty inbox, no task is
\* pending or being planned, and no worker holds an assignment
Quiescent ==
    /\ tm_pc = "recv"
    /\ tm_queue = << >>
    /\ pending_tasks = << >>
    /\ worker_inbox = {}

C37_AnswerableTasksEnded ==
    (Quiescent /\ faults = 0) =>
        \A t \in 1..Len(tasks) :
            (tasks[t].status # PENDING /\ Answerable(t)) => Terminal(t)

\* ============================================== a restart attempt that fails
\* The health loop over two sweeps, with restarts whose stop() or start()
\* raises; nobody else stops an agent and shutdown_all is not called.

\* how many sweeps the health loop makes
MaxChecks == 2

RestartSlots == { s \in Slots : s[1] = "restart" }

\* `await agent.start()` raises: QualityControlAgent.start fails to build its
\* HTTP client, before BaseAgent.start runs; `except Exception` logs it
RestartStartRaises ==
    LET id == Head(agents_to_restart)
    IN  /\ health_pc = "pause"
        /\ id \in ClosesClient
        /\ supervisor_log' = Append(supervisor_log, << "raise", id >>)
        /\ agents_to_restart' = Tail(agents_to_restart)
        /\ health_pc' = NextRestart(Tail(agents_to_restart))
        /\ UNCHANGED << agent_running, agent_status, agent_task, agent_metrics,
                        http_client, run_loops, invocations, registry_agents,
                        registry_names, registry_types, restart_enabled,
                        stop_calls, health, shutdown_pc, shutdown_tasks, used,
                        inbox, msg_count, restVars >>

SuperviseNext ==
    \/ \E id \in Agents : UserStart(id)
    \/ \E id \in Agents : RegisterDirect(id)
    \/ \E s \in RestartSlots : StopEnter(s)
    \/ \E s \in RestartSlots : StopClosed(s)
    \/ \E s \in RestartSlots : StopCloseRaises(s)
    \/ \E s \in RestartSlots : StopJoined(s)
    \/ \E t \in 1..Len(run_loops) : LoopCancelled(t)
    \/ \E t \in 1..Len(run_loops) : LoopStart(t)
    \/ \E t \in 1..Len(run_loops) : LoopTimeout(t)
    \/ \E t \in 1..Len(run_loops) : StepReturns(t)
    \/ \E raising \in SUBSET Range(registry_agents) :
          CheckAllAgentsWithin(MaxChecks, raising)
    \/ RestartStop
    \/ RestartPause
    \/ RestartFailed
    \/ RestartStart
    \/ RestartStartRaises

SuperviseSpec == Init /\ [][SuperviseNext]_vars

\* the restart of agent id ends in `except Exception` in this step
RestartFails(id) ==
    /\ health_pc \in { "stopping", "pause" }
    /\ Head(agents_to_restart) = id
    /\ supervisor_log' = Append(supervisor_log, << "raise", id >>)

\* the log entries that end a restart attempt of agent id
Attempts(id) ==
    { i \in 1..Len(supervisor_log) :
         supervisor_log[i] \in { << "start", id >>, << "raise", id >> } }

\* the latest restart attempt of agent id failed
LastAttemptFailed(id) ==
    /\ Attempts(id) # {}
    /\ supervisor_log[Last(Attempts(id))] = << "raise", id >>

\* _check_all_agents runs in this step
Sweeps == health_pc = "sleep" /\ used'.sweeps = used.sweeps + 1

\* C38: when a restart attempt fails because stop() or start() raises, the
\* health loop goes on (to the next agent of the list or to its sleep), the
\* agent is still registered, and the next sweep probes it and, finding it not
\* running, queues it for a restart again.
C38_FailedRestartRetried ==
    [][\A id \in Agents :
          /\ RestartFails(id) =>
                /\ health_pc' \in { "restart", "sleep" }
                /\ id \in Range(registry_agents')
          /\ (Sweeps /\ LastAttemptFailed(id)) =>
                /\ id \in DOMAIN health'
                /\ ~ agent_running[id] => id \in Range(agents_to_restart')]_vars

\* the same for the attempts in which stop() raises
C38_FailedStopRetried ==
    [][\A id \in Agents :
          /\ (RestartFails(id) /\ health_pc = "stopping") =>
                /\ health_pc' \in { "restart", "sleep" }
                /\ id \in Range(registry_agents')
          /\ (Sweeps /\ LastAttemptFailed(id) /\ id \in Range(registry_agents)) =>
                /\ id \in DOMAIN health'
                /\ ~ agent_running[id] => id \in Range(agents_to_restart')]_vars

\* ------------------------------------------- shutdown_all against a restart
\* the supervisor's restart is over: the health loop is back at its sleep
RestartOver == health_pc = "sleep" /\ agents_to_restart = << >>

\* an agent that was not running is running after this step
Starts(id) == ~ agent_running[id] /\ agent_running'[id]

\* no stop() has raised (an agent whose stop() raises in aclose() keeps
\* running: that is the tolerated failure of one stop, not an interleaving)
NoStopRaised == used.closes = 0

\* C39: once shutdown_all() has been called no agent is started any more, and
\* when shutdown_all() has returned and a restart that was in flight has
\* finished, no agent is running.
C39_NoStartAfterShutdown ==
    /\ [][shutdown_pc # "idle" => \A id \in Agents : ~ Starts(id)]_vars
    /\ [](shutdown_pc = "returned" /\ RestartOver /\ NoStopRaised =>
             \A id \in Agents : ~ agent_running[id])

\* with no restart attempted by the supervisor, no agent is running once
\* shutdown_all() has returned
C39_NoneRunningWithoutRestart ==
    (shutdown_pc = "returned" /\ supervisor_log = << >> /\ NoStopRaised) =>
        \A id \in Agents : ~ agent_running[id]

\* ==================================================== the keyword fallback
\* Titles and descriptions here are strings; Len and SubSeq read them.

\* how many times planning is called for the same title and description
MaxPlanned == 2

PlanTitles ==
    { "", "e", "Hallo", "Finde Kunden", "EMAIL schreiben", "Status",
      "Suche und kontaktiere", "Firma anschreiben, Bericht" }

PlanDescriptions == { "", "mail", "Pipeline", "prospect email" }

RECURSIVE str_lower(_)
\* str.lower on a string
str_lower(s) ==
    IF Len(s) = 0 THEN ""
    ELSE lower_char(SubSeq(s, 1, 1)) \o str_lower(SubSeq(s, 2, Len(s)))

\* `w in text`
contains(text, w) ==
    \E i \in 0..(Len(text) - Len(w)) : SubSeq(text, i + 1, i + Len(w)) = w

\* `any(w in text for w in [...])`
any_in(text, words) == \E w \in words : contains(text, w)

FindWords == { "finde", "suche", "unternehmen", "firma", "prospect" }
MailWords == { "email", "anschreiben", "kontaktier" }
ReportWords == { "report", "bericht", "pipeline", "status" }

\* mutant: the e-mail subtask depends on its own index
email_deps_self(subtasks_so_far) ==
    IF subtasks_so_far # << >> THEN << Len(subtasks_so_far) >> ELSE << >>

\* `deps = [order - 1] if subtasks else []` with order = len(subtasks)
email_deps(subtasks_so_far) ==
    IF subtasks_so_far # << >> THEN << Len(subtasks_so_far) - 1 >> ELSE << >>

\* TaskManagerAgent._plan_without_llm: the "subtasks" list of the plan
plan_without_llm(title, description) ==
    LET text == str_lower(title \o " " \o description)
        found == IF any_in(text, FindWords)
                 THEN << Entry("prospect_finder", 0, << >>),
                         Entry("research_manager", 1, <<0>>) >>
                 ELSE << >>
        order == Len(found)
        mailed == IF any_in(text, MailWords)
                  THEN found \o
                       << Entry("email_writer", order, email_deps(found)),
                          Entry("quality_control", order + 1, << order >>) >>
                  ELSE found
        reported == IF any_in(text, ReportWords)
                    THEN Append(mailed, Entry("deal_tracker", Len(mailed), << >>))
                    ELSE mailed
    IN  IF reported = << >>
        THEN << Entry("research_manager", 0, << >>) >>
        ELSE reported

\* a task with any of the titles and descriptions waits to be planned, with
\* or without a planning capability
FallbackInit ==
    /\ SchedInit /\ BusInit /\ AgentInit /\ CodecInit /\ ConfInit /\ NotifyInit
    /\ merge_rows = << >>
    /\ merge_sent = << >>
    /\ llm_available \in BOOLEAN
    /\ plan_title \in PlanTitles
    /\ plan_description \in PlanDescriptions
    /\ plans_made = << >>

\* the plan of _plan_and_execute_task: `if self._llm and
\* self._llm.is_available` the capability's answer, else the fallback's
PlanCall(answer) ==
    /\ Len(plans_made) < MaxPlanned
    /\ plans_made' = Append(plans_made,
          IF llm_available THEN answer
          ELSE plan_without_llm(plan_title, plan_description))
    /\ UNCHANGED << schedVars, busVars, agentVars, codecVars, confVars,
                    notifyVars, merge_rows, merge_sent, llm_available,
                    plan_title, plan_description >>

FallbackNext == \E answer \in Plans : PlanCall(answer)

FallbackSpec == FallbackInit /\ [][FallbackNext]_vars

\* the indexes run 0..n-1 in list order and every dependency index is smaller
\* than the index of the subtask that names it
Acyclic(plan) ==
    \A i \in 1..Len(plan) :
        /\ plan[i].sequence_order = i - 1
        /\ \A j \in 1..Len(plan[i].depends_on) :
              plan[i].depends_on[j] < plan[i].sequence_order

====
